---- MODULE Spec2Model ----
(***************************************************************************)
(* A model of the options robo-advisor's decision core:                    *)
(* engine/strategy.py (build_strategy and the strike-selection helpers),   *)
(* with the parts of engine/black_scholes.py and engine/indicators.py it   *)
(* calls.                                                                  *)
(*                                                                         *)
(* Units.  Strikes, the spot and the budget are whole dollars.  Quotes     *)
(* (bid, ask, lastPrice, leg prices) are cents per share.  Every dollar    *)
(* amount of a strategy record (max_risk, max_profit, credit_or_debit,     *)
(* take_profit, ev) is held in cents, so "price * 100" of the source (a    *)
(* per-share price times the contract multiplier, in dollars) is           *)
(* "price_in_cents * 100" here.  Volatilities are in 1e-4 (0.25 = 2500),   *)
(* deltas used for strike selection in 1e-6, the Greeks of a leg in 1e-4   *)
(* (the source rounds them to 4 decimals) and net Greeks in 1e-2.          *)
(* Dates are day numbers; day 0 is a Thursday.                             *)
(*                                                                         *)
(* Arithmetic is exact: the source computes in binary floating point and   *)
(* rounds to cents, which agrees with exact arithmetic on the whole-cent   *)
(* quotes drawn here.                                                      *)
(***************************************************************************)
EXTENDS Integers, Sequences, FiniteSets, TLC

VARIABLES
  args,      \* the arguments of build_strategy: spot, vix, iv_rank, bias, budget
  market,    \* what data_provider returns for the ticker: the chain snapshot
  today,     \* the wall clock's date (dt.date.today())
  histVol,   \* what compute_historical_vol(ticker) returns right now
  integ,     \* expected_pnl computed by the integrator, per sigma_move it was run with
  results,   \* the outcomes of the calls of build_strategy made so far
  pc         \* where the caller of the core stands (the scan loop of app.py, a call of the
             \* HybridProvider); None while a function of the core is called on its own

vars == <<args, market, today, histVol, integ, results, pc>>

-----------------------------------------------------------------------------
(* Bounds of the model *)

\* at most this many rows of one side of a base chain carry an altered quote
MaxAltered == 2
\* the wall clock advances by at most this many days between two calls
MaxDaysElapsed == 2
\* a chain handed to filter_liquid_options on its own has at most this many rows
MaxRows == 3

\* the ticker list the scan goes through has at most this many tickers
MaxTickers == 2

-----------------------------------------------------------------------------
(* Arithmetic helpers *)

Abs(x) == IF x < 0 THEN -x ELSE x

Min2(a, b) == IF a <= b THEN a ELSE b

Max2(a, b) == IF a >= b THEN a ELSE b

\* n / d rounded to the nearest integer, ties to the even one (Python's round), n >= 0, d > 0
RoundHalfEven(n, d) ==
  LET q == n \div d
      r == n % d
  IN IF 2 * r < d THEN q
     ELSE IF 2 * r > d THEN q + 1
     ELSE IF q % 2 = 0 THEN q ELSE q + 1

\* the None of the source
None == [none |-> TRUE]

-----------------------------------------------------------------------------
(* config.py *)

\* RISK_FREE_RATE = 0.05, in 1e-4; the tabulated Black-Scholes values below use it
RISK_FREE_RATE == 500

-----------------------------------------------------------------------------
(* engine/black_scholes.py, tabulated.                                     *)
(* BS_TABLE[<<S, K, dte, sigma>>] holds, for T = dte / 365 and r = 0.05,   *)
(* N(d1) and N(d1) - 1 in 1e-6 and the Greeks rounded to 4 decimals as     *)
(* compute_leg_greeks rounds them, at every point the bounded inputs of    *)
(* this model reach.                                                       *)
BS_TABLE ==
  (<<10, 8, 45, 2500>> :> [delta_call |-> 996048, delta_put |-> -3952, greek_delta_call |-> 9960, greek_delta_put |-> -40, gamma |-> 134, theta_call |-> -12, theta_put |-> -1, vega |-> 4])
  @@ (<<10, 9, 45, 2500>> :> [delta_call |-> 905641, delta_put |-> -94359, greek_delta_call |-> 9056, greek_delta_put |-> -944, gamma |-> 1916, theta_call |-> -27, theta_put |-> -15, vega |-> 59])
  @@ (<<10, 10, 45, 2500>> :> [delta_call |-> 545427, delta_put |-> -454573, greek_delta_call |-> 5454, greek_delta_put |-> -4546, gamma |-> 4515, theta_call |-> -46, theta_put |-> -32, vega |-> 139])
  @@ (<<10, 11, 45, 2500>> :> [delta_call |-> 165610, delta_put |-> -834390, greek_delta_call |-> 1656, greek_delta_put |-> -8344, gamma |-> 2835, theta_call |-> -26, theta_put |-> -11, vega |-> 87])
  @@ (<<10, 12, 45, 2500>> :> [delta_call |-> 24829, delta_put |-> -975171, greek_delta_call |-> 248, greek_delta_put |-> -9752, gamma |-> 662, theta_call |-> -6, theta_put |-> 10, vega |-> 20])
  @@ (<<10, 8, 45, 3000>> :> [delta_call |-> 987112, delta_put |-> -12888, greek_delta_call |-> 9871, greek_delta_put |-> -129, gamma |-> 315, theta_call |-> -15, theta_put |-> -4, vega |-> 12])
  @@ (<<10, 9, 45, 3000>> :> [delta_call |-> 866804, delta_put |-> -133196, greek_delta_call |-> 8668, greek_delta_put |-> -1332, gamma |-> 2042, theta_call |-> -36, theta_put |-> -23, vega |-> 76])
  @@ (<<10, 10, 45, 3000>> :> [delta_call |-> 544267, delta_put |-> -455733, greek_delta_call |-> 5443, greek_delta_put |-> -4557, gamma |-> 3764, theta_call |-> -53, theta_put |-> -40, vega |-> 139])
  @@ (<<10, 11, 45, 3000>> :> [delta_call |-> 213708, delta_put |-> -786292, greek_delta_call |-> 2137, greek_delta_put |-> -7863, gamma |-> 2764, theta_call |-> -37, theta_put |-> -22, vega |-> 102])
  @@ (<<10, 12, 45, 3000>> :> [delta_call |-> 52654, delta_put |-> -947346, greek_delta_call |-> 527, greek_delta_put |-> -9473, gamma |-> 1020, theta_call |-> -13, theta_put |-> 3, vega |-> 38])
  @@ (<<10, 8, 45, 3500>> :> [delta_call |-> 973033, delta_put |-> -26967, greek_delta_call |-> 9730, greek_delta_put |-> -270, gamma |-> 507, theta_call |-> -19, theta_put |-> -8, vega |-> 22])
  @@ (<<10, 9, 45, 3500>> :> [delta_call |-> 833713, delta_put |-> -166287, greek_delta_call |-> 8337, greek_delta_put |-> -1663, gamma |-> 2030, theta_call |-> -44, theta_put |-> -32, vega |-> 88])
  @@ (<<10, 10, 45, 3500>> :> [delta_call |-> 544433, delta_put |-> -455567, greek_delta_call |-> 5444, greek_delta_put |-> -4556, gamma |-> 3226, theta_call |-> -61, theta_put |-> -47, vega |-> 139])
  @@ (<<10, 11, 45, 3500>> :> [delta_call |-> 253363, delta_put |-> -746637, greek_delta_call |-> 2534, greek_delta_put |-> -7466, gamma |-> 2604, theta_call |-> -47, theta_put |-> -32, vega |-> 112])
  @@ (<<10, 12, 45, 3500>> :> [delta_call |-> 85036, delta_put |-> -914964, greek_delta_call |-> 850, greek_delta_put |-> -9150, gamma |-> 1267, theta_call |-> -22, theta_put |-> -6, vega |-> 55])
  @@ (<<10, 7, 365, 2200>> :> [delta_call |-> 974916, delta_put |-> -25084, greek_delta_call |-> 9749, greek_delta_put |-> -251, gamma |-> 266, theta_call |-> -11, theta_put |-> -1, vega |-> 59])
  @@ (<<10, 8, 365, 2200>> :> [delta_call |-> 911742, delta_put |-> -88258, greek_delta_call |-> 9117, greek_delta_put |-> -883, gamma |-> 727, theta_call |-> -14, theta_put |-> -3, vega |-> 160])
  @@ (<<10, 9, 365, 2200>> :> [delta_call |-> 792803, delta_put |-> -207197, greek_delta_call |-> 7928, greek_delta_put |-> -2072, gamma |-> 1300, theta_call |-> -17, theta_put |-> -5, vega |-> 286])
  @@ (<<10, 10, 365, 2200>> :> [delta_call |-> 632044, delta_put |-> -367956, greek_delta_call |-> 6320, greek_delta_put |-> -3680, gamma |-> 1713, theta_call |-> -18, theta_put |-> -5, vega |-> 377])
  @@ (<<10, 7, 365, 2500>> :> [delta_call |-> 960087, delta_put |-> -39913, greek_delta_call |-> 9601, greek_delta_put |-> -399, gamma |-> 344, theta_call |-> -11, theta_put |-> -2, vega |-> 86])
  @@ (<<10, 8, 365, 2500>> :> [delta_call |-> 888307, delta_put |-> -111693, greek_delta_call |-> 8883, greek_delta_put |-> -1117, gamma |-> 760, theta_call |-> -15, theta_put |-> -5, vega |-> 190])
  @@ (<<10, 9, 365, 2500>> :> [delta_call |-> 772300, delta_put |-> -227700, greek_delta_call |-> 7723, greek_delta_put |-> -2277, gamma |-> 1208, theta_call |-> -18, theta_put |-> -7, vega |-> 302])
  @@ (<<10, 10, 365, 2500>> :> [delta_call |-> 627409, delta_put |-> -372591, greek_delta_call |-> 6274, greek_delta_put |-> -3726, gamma |-> 1514, theta_call |-> -20, theta_put |-> -7, vega |-> 378])
  @@ (<<10, 7, 365, 3000>> :> [delta_call |-> 933913, delta_put |-> -66087, greek_delta_call |-> 9339, greek_delta_put |-> -661, gamma |-> 428, theta_call |-> -13, theta_put |-> -4, vega |-> 128])
  @@ (<<10, 8, 365, 3000>> :> [delta_call |-> 855537, delta_put |-> -144463, greek_delta_call |-> 8555, greek_delta_put |-> -1445, gamma |-> 758, theta_call |-> -17, theta_put |-> -7, vega |-> 227])
  @@ (<<10, 9, 365, 3000>> :> [delta_call |-> 747891, delta_put |-> -252109, greek_delta_call |-> 7479, greek_delta_put |-> -2521, gamma |-> 1064, theta_call |-> -21, theta_put |-> -9, vega |-> 319])
  @@ (<<10, 10, 365, 3000>> :> [delta_call |-> 624252, delta_put |-> -375748, greek_delta_call |-> 6243, greek_delta_put |-> -3757, gamma |-> 1265, theta_call |-> -22, theta_put |-> -9, vega |-> 379])
  @@ (<<10, 7, 365, 3500>> :> [delta_call |-> 909377, delta_put |-> -90623, greek_delta_call |-> 9094, greek_delta_put |-> -906, gamma |-> 466, theta_call |-> -15, theta_put |-> -6, vega |-> 163])
  @@ (<<10, 8, 365, 3500>> :> [delta_call |-> 830315, delta_put |-> -169685, greek_delta_call |-> 8303, greek_delta_put |-> -1697, gamma |-> 722, theta_call |-> -20, theta_put |-> -9, vega |-> 253])
  @@ (<<10, 9, 365, 3500>> :> [delta_call |-> 732005, delta_put |-> -267995, greek_delta_call |-> 7320, greek_delta_put |-> -2680, gamma |-> 941, theta_call |-> -23, theta_put |-> -11, vega |-> 329])
  @@ (<<10, 10, 365, 3500>> :> [delta_call |-> 624703, delta_put |-> -375297, greek_delta_call |-> 6247, greek_delta_put |-> -3753, gamma |-> 1084, theta_call |-> -25, theta_put |-> -12, vega |-> 379])
  @@ (<<10, 9, 20, 2500>> :> [delta_call |-> 969705, delta_put |-> -30295, greek_delta_call |-> 9697, greek_delta_put |-> -303, gamma |-> 1172, theta_call |-> -22, theta_put |-> -10, vega |-> 16])
  @@ (<<10, 10, 20, 2500>> :> [delta_call |-> 530321, delta_put |-> -469679, greek_delta_call |-> 5303, greek_delta_put |-> -4697, gamma |-> 6797, theta_call |-> -65, theta_put |-> -51, vega |-> 93])
  @@ (<<10, 11, 20, 2500>> :> [delta_call |-> 60261, delta_put |-> -939739, greek_delta_call |-> 603, greek_delta_put |-> -9397, gamma |-> 2043, theta_call |-> -18, theta_put |-> -3, vega |-> 28])
  @@ (<<10, 9, 20, 3000>> :> [delta_call |-> 942309, delta_put |-> -57691, greek_delta_call |-> 9423, greek_delta_put |-> -577, gamma |-> 1645, theta_call |-> -32, theta_put |-> -19, vega |-> 27])
  @@ (<<10, 10, 20, 3000>> :> [delta_call |-> 529545, delta_put |-> -470455, greek_delta_call |-> 5295, greek_delta_put |-> -4705, gamma |-> 5665, theta_call |-> -77, theta_put |-> -63, vega |-> 93])
  @@ (<<10, 11, 20, 3000>> :> [delta_call |-> 99730, delta_put |-> -900270, greek_delta_call |-> 997, greek_delta_put |-> -9003, gamma |-> 2494, theta_call |-> -32, theta_put |-> -17, vega |-> 41])
  @@ (<<10, 9, 20, 3500>> :> [delta_call |-> 913149, delta_put |-> -86851, greek_delta_call |-> 9131, greek_delta_put |-> -869, gamma |-> 1930, theta_call |-> -43, theta_put |-> -31, vega |-> 37])
  @@ (<<10, 10, 20, 3500>> :> [delta_call |-> 529656, delta_put |-> -470344, greek_delta_call |-> 5297, greek_delta_put |-> -4703, gamma |-> 4856, theta_call |-> -88, theta_put |-> -75, vega |-> 93])
  @@ (<<10, 11, 20, 3500>> :> [delta_call |-> 138094, delta_put |-> -861906, greek_delta_call |-> 1381, greek_delta_put |-> -8619, gamma |-> 2691, theta_call |-> -47, theta_put |-> -32, vega |-> 52])
  @@ (<<10, 5, 400, 15000>> :> [delta_call |-> 896427, delta_put |-> -103573, greek_delta_call |-> 8964, greek_delta_put |-> -1036, gamma |-> 115, theta_call |-> -38, theta_put |-> -31, vega |-> 188])
  @@ (<<10, 9, 400, 15000>> :> [delta_call |-> 812495, delta_put |-> -187505, greek_delta_call |-> 8125, greek_delta_put |-> -1875, gamma |-> 171, theta_call |-> -56, theta_put |-> -44, vega |-> 282])
  @@ (<<10, 10, 400, 15000>> :> [delta_call |-> 793901, delta_put |-> -206099, greek_delta_call |-> 7939, greek_delta_put |-> -2061, gamma |-> 182, theta_call |-> -59, theta_put |-> -46, vega |-> 298])
  @@ (<<10, 11, 400, 15000>> :> [delta_call |-> 776174, delta_put |-> -223826, greek_delta_call |-> 7762, greek_delta_put |-> -2238, gamma |-> 190, theta_call |-> -62, theta_put |-> -47, vega |-> 313])
  @@ (<<10, 12, 400, 15000>> :> [delta_call |-> 759259, delta_put |-> -240741, greek_delta_call |-> 7593, greek_delta_put |-> -2407, gamma |-> 198, theta_call |-> -64, theta_put |-> -49, vega |-> 326])
  @@ (<<100, 90, 45, 2500>> :> [delta_call |-> 905641, delta_put |-> -94359, greek_delta_call |-> 9056, greek_delta_put |-> -944, gamma |-> 192, theta_call |-> -273, theta_put |-> -151, vega |-> 591])
  @@ (<<100, 94, 45, 2500>> :> [delta_call |-> 793607, delta_put |-> -206393, greek_delta_call |-> 7936, greek_delta_put |-> -2064, gamma |-> 325, theta_call |-> -376, theta_put |-> -249, vega |-> 1002])
  @@ (<<100, 95, 45, 2500>> :> [delta_call |-> 757552, delta_put |-> -242448, greek_delta_call |-> 7576, greek_delta_put |-> -2424, gamma |-> 356, theta_call |-> -399, theta_put |-> -270, vega |-> 1098])
  @@ (<<100, 96, 45, 2500>> :> [delta_call |-> 718759, delta_put |-> -281241, greek_delta_call |-> 7188, greek_delta_put |-> -2812, gamma |-> 384, theta_call |-> -419, theta_put |-> -288, vega |-> 1184])
  @@ (<<100, 98, 45, 2500>> :> [delta_call |-> 634676, delta_put |-> -365324, greek_delta_call |-> 6347, greek_delta_put |-> -3653, gamma |-> 428, theta_call |-> -447, theta_put |-> -314, vega |-> 1320])
  @@ (<<100, 100, 45, 2500>> :> [delta_call |-> 545427, delta_put |-> -454573, greek_delta_call |-> 5454, greek_delta_put |-> -4546, gamma |-> 452, theta_call |-> -456, theta_put |-> -320, vega |-> 1392])
  @@ (<<100, 95, 20, 2500>> :> [delta_call |-> 829598, delta_put |-> -170402, greek_delta_call |-> 8296, greek_delta_put |-> -1704, gamma |-> 433, theta_call |-> -476, theta_put |-> -347, vega |-> 593])
  @@ (<<100, 100, 20, 2500>> :> [delta_call |-> 530321, delta_put |-> -469679, greek_delta_call |-> 5303, greek_delta_put |-> -4697, gamma |-> 680, theta_call |-> -651, theta_put |-> -515, vega |-> 931])
  @@ (<<100, 90, 20, 2500>> :> [delta_call |-> 969705, delta_put |-> -30295, greek_delta_call |-> 9697, greek_delta_put |-> -303, gamma |-> 117, theta_call |-> -219, theta_put |-> -96, vega |-> 161])
  @@ (<<100, 105, 20, 2500>> :> [delta_call |-> 224330, delta_put |-> -775670, greek_delta_call |-> 2243, greek_delta_put |-> -7757, gamma |-> 512, theta_call |-> -468, theta_put |-> -324, vega |-> 701])
  @@ (<<100, 110, 20, 2500>> :> [delta_call |-> 60261, delta_put |-> -939739, greek_delta_call |-> 603, greek_delta_put |-> -9397, gamma |-> 204, theta_call |-> -183, theta_put |-> -33, vega |-> 280])
  @@ (<<200, 198, 45, 50>> :> [delta_call |-> 1000000, delta_put |-> 0, greek_delta_call |-> 10000, greek_delta_put |-> 0, gamma |-> 0, theta_call |-> -270, theta_put |-> 0, vega |-> 0])
  @@ (<<200, 199, 45, 50>> :> [delta_call |-> 1000000, delta_put |-> 0, greek_delta_call |-> 10000, greek_delta_put |-> 0, gamma |-> 0, theta_call |-> -271, theta_put |-> 0, vega |-> 0])
  @@ (<<200, 200, 45, 50>> :> [delta_call |-> 999778, delta_put |-> -222, greek_delta_call |-> 9998, greek_delta_put |-> -2, gamma |-> 24, theta_call |-> -272, theta_put |-> 0, vega |-> 6])
  @@ (<<200, 201, 45, 50>> :> [delta_call |-> 748956, delta_put |-> -251044, greek_delta_call |-> 7490, greek_delta_put |-> -2510, gamma |-> 9070, theta_call |-> -217, theta_put |-> 56, vega |-> 2237])
  @@ (<<200, 202, 45, 50>> :> [delta_call |-> 15558, delta_put |-> -984442, greek_delta_call |-> 156, greek_delta_put |-> -9844, gamma |-> 1113, theta_call |-> -6, theta_put |-> 269, vega |-> 274])
  @@ (<<200, 203, 45, 50>> :> [delta_call |-> 0, delta_put |-> -1000000, greek_delta_call |-> 0, greek_delta_put |-> -10000, gamma |-> 0, theta_call |-> 0, theta_put |-> 276, vega |-> 0])
  @@ (<<100, 102, 45, 2500>> :> [delta_call |-> 455619, delta_put |-> -544381, greek_delta_call |-> 4556, greek_delta_put |-> -5444, gamma |-> 452, theta_call |-> -445, theta_put |-> -306, vega |-> 1392])
  @@ (<<100, 104, 45, 2500>> :> [delta_call |-> 369685, delta_put |-> -630315, greek_delta_call |-> 3697, greek_delta_put |-> -6303, gamma |-> 430, theta_call |-> -416, theta_put |-> -274, vega |-> 1325])
  @@ (<<100, 105, 45, 2500>> :> [delta_call |-> 329352, delta_put |-> -670648, greek_delta_call |-> 3294, greek_delta_put |-> -6706, gamma |-> 412, theta_call |-> -396, theta_put |-> -253, vega |-> 1271])
  @@ (<<100, 106, 45, 2500>> :> [delta_call |-> 291268, delta_put |-> -708732, greek_delta_call |-> 2913, greek_delta_put |-> -7087, gamma |-> 391, theta_call |-> -372, theta_put |-> -228, vega |-> 1204])
  @@ (<<100, 110, 45, 2500>> :> [delta_call |-> 165610, delta_put |-> -834390, greek_delta_call |-> 1656, greek_delta_put |-> -8344, gamma |-> 283, theta_call |-> -264, theta_put |-> -115, vega |-> 874])
  @@ (<<100, 80, 45, 2500>> :> [delta_call |-> 996048, delta_put |-> -3952, greek_delta_call |-> 9960, greek_delta_put |-> -40, gamma |-> 13, theta_call |-> -120, theta_put |-> -11, vega |-> 41])
  @@ (<<100, 85, 45, 2500>> :> [delta_call |-> 975324, delta_put |-> -24676, greek_delta_call |-> 9753, greek_delta_put |-> -247, gamma |-> 66, theta_call |-> -169, theta_put |-> -53, vega |-> 203])
  @@ (<<100, 115, 45, 2500>> :> [delta_call |-> 69697, delta_put |-> -930303, greek_delta_call |-> 697, greek_delta_put |-> -9303, gamma |-> 152, theta_call |-> -140, theta_put |-> 17, vega |-> 470])
  @@ (<<100, 120, 45, 2500>> :> [delta_call |-> 24829, delta_put |-> -975171, greek_delta_call |-> 248, greek_delta_put |-> -9752, gamma |-> 66, theta_call |-> -60, theta_put |-> 103, vega |-> 204])
  @@ (<<100, 80, 45, 3500>> :> [delta_call |-> 973033, delta_put |-> -26967, greek_delta_call |-> 9730, greek_delta_put |-> -270, gamma |-> 51, theta_call |-> -190, theta_put |-> -81, vega |-> 219])
  @@ (<<100, 85, 45, 3500>> :> [delta_call |-> 924221, delta_put |-> -75779, greek_delta_call |-> 9242, greek_delta_put |-> -758, gamma |-> 116, theta_call |-> -300, theta_put |-> -184, vega |-> 501])
  @@ (<<100, 90, 45, 3500>> :> [delta_call |-> 833713, delta_put |-> -166287, greek_delta_call |-> 8337, greek_delta_put |-> -1663, gamma |-> 203, theta_call |-> -439, theta_put |-> -316, vega |-> 876])
  @@ (<<100, 95, 45, 3500>> :> [delta_call |-> 701593, delta_put |-> -298407, greek_delta_call |-> 7016, greek_delta_put |-> -2984, gamma |-> 282, theta_call |-> -559, theta_put |-> -429, vega |-> 1218])
  @@ (<<100, 100, 45, 3500>> :> [delta_call |-> 544433, delta_put |-> -455567, greek_delta_call |-> 5444, greek_delta_put |-> -4556, gamma |-> 323, theta_call |-> -609, theta_put |-> -473, vega |-> 1392])
  @@ (<<100, 105, 45, 3500>> :> [delta_call |-> 387667, delta_put |-> -612333, greek_delta_call |-> 3877, greek_delta_put |-> -6123, gamma |-> 312, theta_call |-> -572, theta_put |-> -429, vega |-> 1345])
  @@ (<<100, 110, 45, 3500>> :> [delta_call |-> 253363, delta_put |-> -746637, greek_delta_call |-> 2534, greek_delta_put |-> -7466, gamma |-> 260, theta_call |-> -469, theta_put |-> -320, vega |-> 1124])
  @@ (<<100, 115, 45, 3500>> :> [delta_call |-> 152527, delta_put |-> -847473, greek_delta_call |-> 1525, greek_delta_put |-> -8475, gamma |-> 192, theta_call |-> -342, theta_put |-> -185, vega |-> 828])
  @@ (<<100, 120, 45, 3500>> :> [delta_call |-> 85036, delta_put |-> -914964, greek_delta_call |-> 850, greek_delta_put |-> -9150, gamma |-> 127, theta_call |-> -224, theta_put |-> -60, vega |-> 547])
  @@ (<<100, 80, 45, 4500>> :> [delta_call |-> 937025, delta_put |-> -62975, greek_delta_call |-> 9370, greek_delta_put |-> -630, gamma |-> 78, theta_call |-> -317, theta_put |-> -208, vega |-> 434])
  @@ (<<100, 85, 45, 4500>> :> [delta_call |-> 874223, delta_put |-> -125777, greek_delta_call |-> 8742, greek_delta_put |-> -1258, gamma |-> 131, theta_call |-> -460, theta_put |-> -344, vega |-> 726])
  @@ (<<100, 90, 45, 4500>> :> [delta_call |-> 783724, delta_put |-> -216276, greek_delta_call |-> 7837, greek_delta_put |-> -2163, gamma |-> 186, theta_call |-> -605, theta_put |-> -482, vega |-> 1029])
  @@ (<<100, 95, 45, 4500>> :> [delta_call |-> 670989, delta_put |-> -329011, greek_delta_call |-> 6710, greek_delta_put |-> -3290, gamma |-> 229, theta_call |-> -714, theta_put |-> -585, vega |-> 1270])
  @@ (<<100, 100, 45, 4500>> :> [delta_call |-> 546973, delta_put |-> -453027, greek_delta_call |-> 5470, greek_delta_put |-> -4530, gamma |-> 251, theta_call |-> -761, theta_put |-> -625, vega |-> 1391])
  @@ (<<100, 105, 45, 4500>> :> [delta_call |-> 424352, delta_put |-> -575648, greek_delta_call |-> 4244, greek_delta_put |-> -5756, gamma |-> 248, theta_call |-> -740, theta_put |-> -597, vega |-> 1376])
  @@ (<<100, 110, 45, 4500>> :> [delta_call |-> 313770, delta_put |-> -686230, greek_delta_call |-> 3138, greek_delta_put |-> -6862, gamma |-> 224, theta_call |-> -662, theta_put |-> -512, vega |-> 1245])
  @@ (<<100, 115, 45, 4500>> :> [delta_call |-> 221683, delta_put |-> -778317, greek_delta_call |-> 2217, greek_delta_put |-> -7783, gamma |-> 188, theta_call |-> -550, theta_put |-> -393, vega |-> 1044])
  @@ (<<100, 120, 45, 4500>> :> [delta_call |-> 150130, delta_put |-> -849870, greek_delta_call |-> 1501, greek_delta_put |-> -8499, gamma |-> 148, theta_call |-> -429, theta_put |-> -265, vega |-> 819])

\* black_scholes_delta, in 1e-6: 0.0 in the degenerate case, else N(d1) or N(d1) - 1
black_scholes_delta(S, K, dte, sigma, option_type) ==
  IF dte <= 0 \/ sigma <= 0 THEN 0
  ELSE BS_TABLE[<<S, K, dte, sigma>>][IF option_type = "call" THEN "delta_call" ELSE "delta_put"]

\* black_scholes_gamma, in 1e-4: 0.0 in the degenerate case, else the closed form
black_scholes_gamma(S, K, dte, sigma) ==
  IF dte <= 0 \/ sigma <= 0 THEN 0 ELSE BS_TABLE[<<S, K, dte, sigma>>].gamma

\* black_scholes_theta, in 1e-4 per day: 0.0 in the degenerate case, else the closed form
black_scholes_theta(S, K, dte, sigma, option_type) ==
  IF dte <= 0 \/ sigma <= 0 THEN 0
  ELSE BS_TABLE[<<S, K, dte, sigma>>][IF option_type = "call" THEN "theta_call" ELSE "theta_put"]

\* black_scholes_vega, in 1e-4 per point of volatility: 0.0 in the degenerate case, else the
\* closed form
black_scholes_vega(S, K, dte, sigma) ==
  IF dte <= 0 \/ sigma <= 0 THEN 0 ELSE BS_TABLE[<<S, K, dte, sigma>>].vega

\* compute_leg_greeks: the four Greeks of one leg, rounded to 4 decimals (1e-4), signed by the action
compute_leg_greeks(leg, S, dte, sigma) ==
  LET sign == IF leg.action = "BUY" THEN 1 ELSE -1
      degenerate == dte <= 0 \/ sigma <= 0
      e == BS_TABLE[<<S, leg.strike, dte, sigma>>]
      isCall == leg.type = "Call"
  IN IF degenerate THEN [delta |-> 0, gamma |-> 0, theta |-> 0, vega |-> 0]
     ELSE [delta |-> sign * (IF isCall THEN e.greek_delta_call ELSE e.greek_delta_put),
           gamma |-> sign * e.gamma,
           theta |-> sign * (IF isCall THEN e.theta_call ELSE e.theta_put),
           vega  |-> sign * e.vega]

-----------------------------------------------------------------------------
(* engine/black_scholes.py: prices, P&L and probabilities.                 *)
(* Entry prices, P&L, take_profit and max_risk are in cents, a spot handed *)
(* to the pricer is in cents, a price it returns is in 1e-6 dollars, a     *)
(* percentage is in tenths of a percent.                                   *)

\* n / d rounded to the nearest integer, ties to even, for either sign of n (d > 0)
RoundSigned(n, d) == IF n >= 0 THEN RoundHalfEven(n, d) ELSE -RoundHalfEven(-n, d)

\* the Black-Scholes closed form at T > 0 and sigma > 0, tabulated for T = days / 365 and r = 0.05
BS_PRICE_TABLE ==
  (<<7748, 90, 21, 2500>> :> [call |-> 11661, put |-> 12276312])
  @@ (<<7748, 95, 21, 2500>> :> [call |-> 535, put |-> 17250823])
  @@ (<<7748, 100, 21, 2500>> :> [call |-> 15, put |-> 22235940])
  @@ (<<7748, 105, 21, 2500>> :> [call |-> 0, put |-> 27221562])
  @@ (<<8161, 85, 21, 2000>> :> [call |-> 490317, put |-> 3631941])
  @@ (<<8161, 90, 21, 2000>> :> [call |-> 36878, put |-> 8164140])
  @@ (<<8161, 110, 21, 2000>> :> [call |-> 0, put |-> 28069810])
  @@ (<<8161, 115, 21, 2000>> :> [call |-> 0, put |-> 33055447])
  @@ (<<8261, 90, 21, 2500>> :> [call |-> 197065, put |-> 7332325])
  @@ (<<8261, 95, 21, 2500>> :> [call |-> 20391, put |-> 12141288])
  @@ (<<8261, 100, 21, 2500>> :> [call |-> 1263, put |-> 17107798])
  @@ (<<8261, 105, 21, 2500>> :> [call |-> 49, put |-> 22092221])
  @@ (<<8591, 85, 21, 2000>> :> [call |-> 2273879, put |-> 1120743])
  @@ (<<8591, 90, 21, 2000>> :> [call |-> 415430, put |-> 4247931])
  @@ (<<8591, 110, 21, 2000>> :> [call |-> 0, put |-> 23775050])
  @@ (<<8591, 115, 21, 2000>> :> [call |-> 0, put |-> 28760687])
  @@ (<<8808, 90, 21, 2500>> :> [call |-> 1396484, put |-> 3062759])
  @@ (<<8808, 95, 21, 2500>> :> [call |-> 298368, put |-> 6950281])
  @@ (<<8808, 100, 21, 2500>> :> [call |-> 39508, put |-> 11677058])
  @@ (<<8808, 105, 21, 2500>> :> [call |-> 3303, put |-> 16626490])
  @@ (<<9043, 85, 21, 2000>> :> [call |-> 5845351, put |-> 171454])
  @@ (<<9043, 90, 21, 2000>> :> [call |-> 2089862, put |-> 1401601])
  @@ (<<9043, 110, 21, 2000>> :> [call |-> 31, put |-> 19254319])
  @@ (<<9043, 115, 21, 2000>> :> [call |-> 0, put |-> 24239925])
  @@ (<<9391, 90, 21, 2500>> :> [call |-> 4878584, put |-> 713798])
  @@ (<<9391, 95, 21, 2500>> :> [call |-> 1869274, put |-> 2690125])
  @@ (<<9391, 100, 21, 2500>> :> [call |-> 482840, put |-> 6289328])
  @@ (<<9391, 105, 21, 2500>> :> [call |-> 81878, put |-> 10874003])
  @@ (<<9500, 90, 1, 2500>> :> [call |-> 5012332, put |-> 5])
  @@ (<<9500, 90, 21, 2500>> :> [call |-> 5765690, put |-> 507158])
  @@ (<<9500, 95, 1, 2500>> :> [call |-> 502434, put |-> 489421])
  @@ (<<9500, 95, 21, 2500>> :> [call |-> 2408126, put |-> 2135231])
  @@ (<<9500, 100, 1, 2500>> :> [call |-> 14, put |-> 4986316])
  @@ (<<9500, 100, 21, 2500>> :> [call |-> 692277, put |-> 5405019])
  @@ (<<9500, 105, 1, 2500>> :> [call |-> 0, put |-> 9985617])
  @@ (<<9500, 105, 21, 2500>> :> [call |-> 132204, put |-> 9830584])
  @@ (<<9519, 85, 21, 2000>> :> [call |-> 10443593, put |-> 11039])
  @@ (<<9519, 90, 21, 2000>> :> [call |-> 5681521, put |-> 234604])
  @@ (<<9519, 110, 21, 2000>> :> [call |-> 2196, put |-> 14497827])
  @@ (<<9519, 115, 21, 2000>> :> [call |-> 60, put |-> 19481329])
  @@ (<<10000, 90, 1, 2500>> :> [call |-> 10012328, put |-> 0])
  @@ (<<10000, 90, 21, 2500>> :> [call |-> 10338588, put |-> 80056])
  @@ (<<10000, 95, 1, 2500>> :> [call |-> 5013025, put |-> 12])
  @@ (<<10000, 95, 21, 2500>> :> [call |-> 5855295, put |-> 582400])
  @@ (<<10000, 100, 1, 2500>> :> [call |-> 528878, put |-> 515180])
  @@ (<<10000, 100, 21, 2500>> :> [call |-> 2534869, put |-> 2247611])
  @@ (<<10000, 105, 1, 2500>> :> [call |-> 32, put |-> 4985650])
  @@ (<<10000, 105, 21, 2500>> :> [call |-> 783061, put |-> 5481440])
  @@ (<<10012, 90, 21, 2500>> :> [call |-> 10457942, put |-> 76046])
  @@ (<<10012, 95, 21, 2500>> :> [call |-> 5957355, put |-> 561097])
  @@ (<<10012, 100, 21, 2500>> :> [call |-> 2600888, put |-> 2190266])
  @@ (<<10012, 105, 21, 2500>> :> [call |-> 811941, put |-> 5386957])
  @@ (<<10020, 85, 21, 2000>> :> [call |-> 15441894, put |-> 270])
  @@ (<<10020, 90, 21, 2000>> :> [call |-> 10472769, put |-> 16782])
  @@ (<<10020, 110, 21, 2000>> :> [call |-> 57684, put |-> 9544245])
  @@ (<<10020, 115, 21, 2000>> :> [call |-> 3754, put |-> 14475953])
  @@ (<<10500, 90, 1, 2500>> :> [call |-> 15012328, put |-> 0])
  @@ (<<10500, 90, 21, 2500>> :> [call |-> 15266559, put |-> 8026])
  @@ (<<10500, 95, 1, 2500>> :> [call |-> 10013013, put |-> 0])
  @@ (<<10500, 95, 21, 2500>> :> [call |-> 10377783, put |-> 104888])
  @@ (<<10500, 100, 1, 2500>> :> [call |-> 5013727, put |-> 30])
  @@ (<<10500, 100, 21, 2500>> :> [call |-> 5947884, put |-> 660626])
  @@ (<<10500, 105, 1, 2500>> :> [call |-> 555322, put |-> 540939])
  @@ (<<10500, 105, 21, 2500>> :> [call |-> 2661613, put |-> 2359992])
  @@ (<<10547, 85, 21, 2000>> :> [call |-> 20714287, put |-> 2])
  @@ (<<10547, 90, 21, 2000>> :> [call |-> 15729108, put |-> 461])
  @@ (<<10547, 110, 21, 2000>> :> [call |-> 602162, put |-> 4816062])
  @@ (<<10547, 115, 21, 2000>> :> [call |-> 86749, put |-> 9286286])
  @@ (<<10675, 90, 21, 2500>> :> [call |-> 17013850, put |-> 3238])
  @@ (<<10675, 95, 21, 2500>> :> [call |-> 12077132, put |-> 52157])
  @@ (<<10675, 100, 21, 2500>> :> [call |-> 7433155, put |-> 393817])
  @@ (<<10675, 105, 21, 2500>> :> [call |-> 3687219, put |-> 1633518])
  @@ (<<11102, 85, 21, 2000>> :> [call |-> 26264407, put |-> 0])
  @@ (<<11102, 90, 21, 2000>> :> [call |-> 21278775, put |-> 5])
  @@ (<<11102, 110, 21, 2000>> :> [call |-> 2846763, put |-> 1510541])
  @@ (<<11102, 115, 21, 2000>> :> [call |-> 807604, put |-> 4457019])
  @@ (<<11382, 90, 21, 2500>> :> [call |-> 24078237, put |-> 51])
  @@ (<<11382, 95, 21, 2500>> :> [call |-> 19094457, put |-> 1908])
  @@ (<<11382, 100, 21, 2500>> :> [call |-> 14137538, put |-> 30625])
  @@ (<<11382, 105, 21, 2500>> :> [call |-> 9364961, put |-> 243686])
  @@ (<<11686, 85, 21, 2000>> :> [call |-> 32106592, put |-> 0])
  @@ (<<11686, 90, 21, 2000>> :> [call |-> 27120955, put |-> 0])
  @@ (<<11686, 110, 21, 2000>> :> [call |-> 7414566, put |-> 236159])
  @@ (<<11686, 115, 21, 2000>> :> [call |-> 3482182, put |-> 1289413])
  @@ (<<12136, 90, 21, 2500>> :> [call |-> 31613673, put |-> 0])
  @@ (<<12136, 95, 21, 2500>> :> [call |-> 26628061, put |-> 25])
  @@ (<<12136, 100, 21, 2500>> :> [call |-> 21643319, put |-> 920])
  @@ (<<12136, 105, 21, 2500>> :> [call |-> 16671984, put |-> 15223])
  @@ (<<12301, 85, 21, 2000>> :> [call |-> 38256209, put |-> 0])
  @@ (<<12301, 90, 21, 2000>> :> [call |-> 33270572, put |-> 0])
  @@ (<<12301, 110, 21, 2000>> :> [call |-> 13343618, put |-> 15595])
  @@ (<<12301, 115, 21, 2000>> :> [call |-> 8523560, put |-> 181174])
  @@ (<<12939, 90, 21, 2500>> :> [call |-> 39648049, put |-> 0])
  @@ (<<12939, 95, 21, 2500>> :> [call |-> 34662412, put |-> 0])
  @@ (<<12939, 100, 21, 2500>> :> [call |-> 29676785, put |-> 10])
  @@ (<<12939, 105, 21, 2500>> :> [call |-> 24691498, put |-> 360])
  @@ (<<10000, 90, 45, 2500>> :> [call |-> 10955136, put |-> 402048])
  @@ (<<10000, 95, 45, 2500>> :> [call |-> 6898366, put |-> 1314550])
  @@ (<<10000, 100, 45, 2500>> :> [call |-> 3805936, put |-> 3191394])
  @@ (<<10000, 105, 45, 2500>> :> [call |-> 1812982, put |-> 6167713])
  @@ (<<10000, 110, 45, 2500>> :> [call |-> 741855, put |-> 10065858])

\* (a variant of black_scholes_price: the intrinsic value is not floored at 0)
black_scholes_price_unfloored(S, K, days, sigma, option_type) ==
  IF days <= 0 \/ sigma <= 0
  THEN IF option_type = "call" THEN 10000 * (S - 100 * K) ELSE 10000 * (100 * K - S)
  ELSE BS_PRICE_TABLE[<<S, K, days, sigma>>][option_type]

\* black_scholes_price: the intrinsic value when T <= 0 or sigma <= 0, else the closed form
black_scholes_price(S, K, days, sigma, option_type) ==
  IF days <= 0 \/ sigma <= 0
  THEN Max2(0, IF option_type = "call" THEN 10000 * (S - 100 * K) ELSE 10000 * (100 * K - S))
  ELSE BS_PRICE_TABLE[<<S, K, days, sigma>>][option_type]

\* sign = 1 if leg["action"] == "BUY" else -1
Sign(leg) == IF leg.action = "BUY" THEN 1 ELSE -1

\* initial_value: the sum of sign * leg["price"], in cents
RECURSIVE InitialValue(_)
InitialValue(legs) ==
  IF legs = <<>> THEN 0 ELSE Sign(Head(legs)) * Head(legs).price + InitialValue(Tail(legs))

\* (a variant of NewValue: each leg is revalued at its own tenor, a leg that expires base - dte
\* days before the first one having that many days less to run)
RECURSIVE OwnTenorValue(_, _, _, _, _)
OwnTenorValue(legs, target_spot, days, sigma, base) ==
  IF legs = <<>> THEN 0
  ELSE Sign(Head(legs))
         * black_scholes_price(target_spot, Head(legs).strike, days - (base - Head(legs).dte),
                               sigma, IF Head(legs).type = "Call" THEN "call" ELSE "put")
       + OwnTenorValue(Tail(legs), target_spot, days, sigma, base)

NewValue_own_tenor(legs, target_spot, days, sigma) ==
  IF legs = <<>> THEN 0 ELSE OwnTenorValue(legs, target_spot, days, sigma, legs[1].dte)

\* new_value: the sum of sign * black_scholes_price(target_spot, K, T_target, r, sigma, type)
RECURSIVE NewValue(_, _, _, _)
NewValue(legs, target_spot, days, sigma) ==
  IF legs = <<>> THEN 0
  ELSE Sign(Head(legs))
         * black_scholes_price(target_spot, Head(legs).strike, days, sigma,
                               IF Head(legs).type = "Call" THEN "call" ELSE "put")
       + NewValue(Tail(legs), target_spot, days, sigma)

\* (a variant of TargetDays: the horizon is not floored at one day)
TargetDays_unfloored(days_to_target) == days_to_target

\* T_target = max(days_to_target, 1) / 365.0, in days
TargetDays(days_to_target) == Max2(days_to_target, 1)

\* simulate_pnl: round((new_value - initial_value) * 100 * qty, 2), in cents
simulate_pnl(legs, target_spot, days_to_target, current_sigma, qty) ==
  RoundSigned((NewValue(legs, target_spot, TargetDays(days_to_target), current_sigma)
               - 10000 * InitialValue(legs)) * qty, 100)

\* holding_days = max(1, dte - 21): the days the underlying moves
holding_days(dte) == Max2(1, dte - 21)

\* remaining_dte = min(21, dte): the tenor the legs are revalued at
remaining_dte(dte) == Min2(21, dte)

\* z_values = np.linspace(-4, 4, n_points): the model integrates on the whole z of the grid
Z_VALUES == <<-4, -3, -2, -1, 0, 1, 2, 3, 4>>

\* prob = norm.pdf(z) * dz at each z of Z_VALUES, in 1e-6
NORM_PDF_DZ == <<134, 4432, 53991, 241971, 398942, 241971, 53991, 4432, 134>>

\* s_t = spot * exp(drift + vol * z) at each z of Z_VALUES, in cents, for holding_days =
\* max(1, dte - 21); GBM_TABLE[<<spot, dte, sigma_move>>]
GBM_TABLE ==
  (<<100, 45, 2500>> :> <<7748, 8261, 8808, 9391, 10012, 10675, 11382, 12136, 12939>>)
  @@ (<<100, 45, 2000>> :> <<8161, 8591, 9043, 9519, 10020, 10547, 11102, 11686, 12301>>)

\* the sum of w over the indices of S
RECURSIVE Mass(_, _)
Mass(w, S) ==
  IF S = {} THEN 0 ELSE LET i == CHOOSE j \in S : TRUE IN w[i] + Mass(w, S \ {i})

\* (a variant of Clamped: no lower clamp)
Clamped_unfloored(p) == Min2(999, RoundHalfEven(p, 1000))

\* round(max(0.1, min(99.9, p * 100)), 1): a probability in 1e-6 as a percentage in tenths
Clamped(p) == Max2(1, Min2(999, RoundHalfEven(p, 1000)))

\* (a variant of TakeProfitBucket: the P&L only has to exceed minus the target)
TakeProfitBucket_lenient(pnl, take_profit) == {i \in DOMAIN pnl : pnl[i] >= -take_profit}

\* if pnl >= take_profit: p_take_profit += prob
TakeProfitBucket(pnl, take_profit) == {i \in DOMAIN pnl : pnl[i] >= take_profit}

\* expected_pnl: round(sum of pnl * prob, 2), in cents; the weight is split in thousands and units
\* to keep every product within 32 bits
ExpectedValue(pnl) ==
  RoundSigned(Mass([i \in DOMAIN pnl |-> pnl[i] * (NORM_PDF_DZ[i] \div 1000)], DOMAIN pnl)
              + RoundSigned(Mass([i \in DOMAIN pnl |-> pnl[i] * (NORM_PDF_DZ[i] % 1000)], DOMAIN pnl),
                            1000),
              1000)

\* (a variant of Probabilities: the partial loss is a bucket of its own, clamped like the others)
Probabilities_own_bucket(pnl, take_profit, max_risk, p_be_pct, p_ml_pct) ==
  [p_take_profit  |-> Clamped(Mass(NORM_PDF_DZ, TakeProfitBucket(pnl, take_profit))),
   p_breakeven    |-> p_be_pct,
   p_partial_loss |-> Clamped(Mass(NORM_PDF_DZ, {i \in DOMAIN pnl : pnl[i] < 0 /\ 100 * pnl[i] > -95 * max_risk})),
   p_max_loss     |-> p_ml_pct,
   expected_pnl   |-> ExpectedValue(pnl)]

\* the three buckets, the remainder and the expected P&L, from the P&L at each point of the grid
Probabilities(pnl, take_profit, max_risk, p_be_pct, p_ml_pct) ==
  [p_take_profit  |-> Clamped(Mass(NORM_PDF_DZ, TakeProfitBucket(pnl, take_profit))),
   p_breakeven    |-> p_be_pct,
   p_partial_loss |-> Max2(0, 1000 - p_be_pct - p_ml_pct),
   p_max_loss     |-> p_ml_pct,
   expected_pnl   |-> ExpectedValue(pnl)]

\* the accumulation loop of compute_real_probabilities over the grid
Integrated(pnl, take_profit, max_risk) ==
  Probabilities(pnl, take_profit, max_risk,
                Clamped(Mass(NORM_PDF_DZ, {i \in DOMAIN pnl : pnl[i] >= 0})),
                Clamped(Mass(NORM_PDF_DZ, {i \in DOMAIN pnl : 100 * pnl[i] <= -95 * max_risk})))

\* compute_real_probabilities; sigma_move = None stands for sigma
compute_real_probabilities(legs, spot, dte, sigma, qty, take_profit, max_risk, sigma_move) ==
  Integrated([i \in DOMAIN Z_VALUES |->
                simulate_pnl(legs,
                             GBM_TABLE[<<spot, dte, IF sigma_move = None THEN sigma ELSE sigma_move>>][i],
                             remaining_dte(dte), sigma, qty)],
             take_profit, max_risk)

-----------------------------------------------------------------------------
(* engine/strategy.py: the helpers *)

\* the strikes of a chain: df["strike"].unique()
Strikes(chain) == {chain[i].strike : i \in DOMAIN chain}

\* df[df["strike"] == k].iloc[0]: the first row at strike k
RowAt(chain, k) ==
  chain[CHOOSE i \in DOMAIN chain :
          /\ chain[i].strike = k
          /\ \A j \in DOMAIN chain : chain[j].strike = k => i <= j]

\* min(sorted(S), key=lambda x: abs(x - target)): nearest to target, the lowest one on a tie
NearestStrike(S, target) ==
  CHOOSE s \in S : \A t \in S :
    \/ Abs(s - target) < Abs(t - target)
    \/ (Abs(s - target) = Abs(t - target) /\ s <= t)

\* Series.idxmin / argsort()[:1]: the index of the least value of d, the first one on a tie
FirstArgMin(d) ==
  CHOOSE i \in DOMAIN d : \A j \in DOMAIN d : d[i] < d[j] \/ (d[i] = d[j] /\ i <= j)

\* find_strike_by_delta: the row whose |delta| is nearest |target_delta| (idxmin: the first on a tie)
find_strike_by_delta(options_df, S, dte, sigma, target_delta, option_type) ==
  IF options_df = <<>> THEN None
  ELSE options_df[FirstArgMin(
         [i \in DOMAIN options_df |->
            Abs(Abs(black_scholes_delta(S, options_df[i].strike, dte, sigma, option_type))
                - Abs(target_delta))])]

\* row.get(key, 0) or 0: a missing key and a null value count as 0 (a row of the model has no
\* field for either)
Field(row, key) == IF key \in DOMAIN row THEN row[key] ELSE 0

\* The quotes are binary floats.  When bid + ask is an odd number of cents the midpoint lies half
\* way between two cents in decimals and round(, 2) goes where the double nearest to it lies:
\* FLOAT_MID_UP holds the pairs <<bid, ask>> up to 20 cents each for which it goes up.
FLOAT_MID_UP ==
  {
     <<1, 4>>, <<1, 10>>, <<1, 12>>, <<1, 14>>, <<1, 16>>, <<1, 18>>, <<1, 20>>, <<2, 3>>,
     <<2, 5>>, <<2, 7>>, <<2, 9>>, <<2, 11>>, <<2, 17>>, <<3, 2>>, <<3, 4>>, <<3, 8>>,
     <<3, 10>>, <<3, 14>>, <<3, 16>>, <<3, 20>>, <<4, 1>>, <<4, 3>>, <<4, 7>>, <<4, 9>>,
     <<4, 13>>, <<4, 15>>, <<4, 17>>, <<4, 19>>, <<5, 2>>, <<5, 6>>, <<5, 8>>, <<5, 10>>,
     <<5, 14>>, <<5, 16>>, <<6, 5>>, <<6, 7>>, <<6, 13>>, <<6, 17>>, <<7, 2>>, <<7, 4>>,
     <<7, 6>>, <<7, 8>>, <<7, 10>>, <<7, 12>>, <<7, 14>>, <<7, 16>>, <<7, 20>>, <<8, 3>>,
     <<8, 5>>, <<8, 7>>, <<8, 11>>, <<8, 13>>, <<8, 19>>, <<9, 2>>, <<9, 4>>, <<9, 10>>,
     <<9, 14>>, <<9, 18>>, <<9, 20>>, <<10, 1>>, <<10, 3>>, <<10, 5>>, <<10, 7>>, <<10, 9>>,
     <<10, 11>>, <<10, 13>>, <<10, 17>>, <<10, 19>>, <<11, 2>>, <<11, 8>>, <<11, 10>>,
     <<11, 16>>, <<12, 1>>, <<12, 7>>, <<12, 15>>, <<12, 17>>, <<13, 4>>, <<13, 6>>, <<13, 8>>,
     <<13, 10>>, <<13, 14>>, <<13, 16>>, <<13, 20>>, <<14, 1>>, <<14, 3>>, <<14, 5>>,
     <<14, 7>>, <<14, 9>>, <<14, 13>>, <<14, 15>>, <<14, 17>>, <<14, 19>>, <<15, 4>>,
     <<15, 12>>, <<15, 14>>, <<16, 1>>, <<16, 3>>, <<16, 5>>, <<16, 7>>, <<16, 11>>,
     <<16, 13>>, <<16, 17>>, <<17, 2>>, <<17, 4>>, <<17, 6>>, <<17, 10>>, <<17, 12>>,
     <<17, 14>>, <<17, 16>>, <<18, 1>>, <<18, 9>>, <<19, 4>>, <<19, 8>>, <<19, 10>>,
     <<19, 14>>, <<19, 20>>, <<20, 1>>, <<20, 3>>, <<20, 7>>, <<20, 9>>, <<20, 13>>, <<20, 19>>
  }

\* round((bid + ask) / 2, 2), in cents
MidOfQuote(bid, ask) ==
  IF (bid + ask) % 2 = 0 THEN (bid + ask) \div 2
  ELSE CASE bid <= 20 /\ ask <= 20 ->
         IF <<bid, ask>> \in FLOAT_MID_UP THEN (bid + ask + 1) \div 2 ELSE (bid + ask - 1) \div 2

\* get_mid_price: (bid + ask) / 2 to the cent, else lastPrice, else 0.0
get_mid_price(row) ==
  IF Field(row, "bid") > 0 /\ Field(row, "ask") > 0
  THEN MidOfQuote(Field(row, "bid"), Field(row, "ask"))
  ELSE IF Field(row, "lastPrice") > 0 THEN Field(row, "lastPrice")
  ELSE 0

\* get_mid_price of app.py: 0.0 when bid <= 0 or ask <= 0, else (bid + ask) / 2 to the cent
app_get_mid_price(row) ==
  IF Field(row, "bid") <= 0 \/ Field(row, "ask") <= 0 THEN 0
  ELSE MidOfQuote(Field(row, "bid"), Field(row, "ask"))

\* the ascending sequence of the positive impliedVolatility values of the rows
RECURSIVE SortedInsert(_, _)
SortedInsert(seq, x) ==
  IF seq = <<>> THEN <<x>>
  ELSE IF x <= Head(seq) THEN <<x>> \o seq
  ELSE <<Head(seq)>> \o SortedInsert(Tail(seq), x)

RECURSIVE SortedPositiveIVs(_)
SortedPositiveIVs(rows) ==
  IF rows = <<>> THEN <<>>
  ELSE IF Head(rows).impliedVolatility > 0
       THEN SortedInsert(SortedPositiveIVs(Tail(rows)), Head(rows).impliedVolatility)
       ELSE SortedPositiveIVs(Tail(rows))

\* estimate_sigma: the median of the positive implied volatilities, 0.25 when there is none
estimate_sigma(options_df) ==
  LET ivs == SortedPositiveIVs(options_df)
      n == Len(ivs)
  IN IF n = 0 THEN 2500
     ELSE IF n % 2 = 1 THEN ivs[(n + 1) \div 2]
     ELSE (ivs[n \div 2] + ivs[n \div 2 + 1]) \div 2

\* (lastPrice * 0.98).round(2) and (lastPrice * 1.02).round(2) where the product lies half way
\* between two cents in decimals (lastPrice = 25, 75, ... cents): the cents numpy rounds to
FLOAT_SYNTH_TIES ==
  (25 :> [bid |-> 24, ask |-> 26])
  @@ (75 :> [bid |-> 74, ask |-> 76])
  @@ (125 :> [bid |-> 123, ask |-> 127])
  @@ (175 :> [bid |-> 172, ask |-> 178])

\* filter_liquid_options, the synthesis step: bid <= 0 and lastPrice > 0 gives a +-2% quote
SynthesizeQuote(row) ==
  IF row.bid <= 0 /\ row.lastPrice > 0
  THEN IF row.lastPrice % 50 # 25
       THEN [row EXCEPT !.bid = RoundHalfEven(98 * row.lastPrice, 100),
                        !.ask = RoundHalfEven(102 * row.lastPrice, 100)]
       ELSE [row EXCEPT !.bid = FLOAT_SYNTH_TIES[row.lastPrice].bid,
                        !.ask = FLOAT_SYNTH_TIES[row.lastPrice].ask]
  ELSE row

\* spread_pct = (ask - bid) / mid is a float.  It is 0.40 in decimals when ask = 1.5 x bid, and
\* then 0.4 or 0.4000000000000001 in floats: FLOAT_SPREAD_ABOVE holds the bids up to 200 cents
\* for which it is above.
FLOAT_SPREAD_ABOVE ==
  {
     18, 30, 36, 58, 60, 62, 70, 72, 74, 82, 86, 90, 114, 116, 120, 122, 124, 140, 144, 148,
     164, 166, 172, 180, 190, 194, 198
  }

\* spread_pct <= 0.40, with mid = (bid + ask) / 2
SpreadWithin(bid, ask) ==
  IF 2 * ask # 3 * bid THEN 5 * (ask - bid) < bid + ask
  ELSE CASE bid <= 200 -> bid \notin FLOAT_SPREAD_ABOVE

\* filter_liquid_options, the three exclusions: bid > 0, openInterest >= 10, (ask - bid) / mid <= 0.40
IsLiquid(row) ==
  /\ row.bid > 0
  /\ row.openInterest >= 10
  /\ SpreadWithin(row.bid, row.ask)

\* filter_liquid_options
filter_liquid_options(df) ==
  IF df = <<>> THEN df
  ELSE SelectSeq([i \in DOMAIN df |-> SynthesizeQuote(df[i])], IsLiquid)

-----------------------------------------------------------------------------
(* engine/strategy.py: build_strategy, the structure builders.             *)
(* A builder ends in a rejection (a raise) or in the unit-quantity record  *)
(* it has filled in: name, legs, credit_or_debit, max_risk, max_profit.    *)

\* raise ValueError(...): the rejection, told apart by the message it carries
Reject(reason) == [kind |-> "rejected", error |-> "ValueError", reason |-> reason]

\* an exception build_strategy does not raise itself, of the class the failing statement raises
Crash(error) == [kind |-> "rejected", error |-> error, reason |-> "internal"]

\* one entry of result["legs"]
Leg(action, type, strike, exp, dte, price) ==
  [action |-> action, type |-> type, strike |-> strike, exp |-> exp, dte |-> dte, price |-> price]

\* the fields of result a builder assigns (each already round(x, 2), in cents)
Draft(name, legs, credit_or_debit, max_risk, max_profit) ==
  [kind |-> "draft", name |-> name, legs |-> legs, credit_or_debit |-> credit_or_debit,
   max_risk |-> max_risk, max_profit |-> max_profit]

\* target_width = max(1.0, round(spot * 0.015))
TargetWidth(spot) == Max2(1, RoundHalfEven(15 * spot, 1000))

\* The prices are binary floats (each the double nearest to its cents) and the code compares their
\* unrounded difference with the width.  A difference of two prices that is a whole number of
\* dollars w in decimals is w, a little above w or a little below w in floats.  FLOAT_DIFF_BELOW[w]
\* holds the prices lo, in cents from 0 to 1300, for which (lo + 100 w) / 100 - lo / 100 < w in
\* IEEE-754 double arithmetic, for w = 1, 2, 3 (tabulated by running the subtraction).
FLOAT_DIFF_BELOW ==
  <<
     {13, 14, 15, 16, 17, 38, 39, 40, 63, 64, 65, 66, 67, 68, 88, 89, 90, 91, 92, 93, 101, 103,
      105, 107, 109, 111, 126, 128, 130, 132, 134, 136, 151, 153, 155, 157, 159, 161, 176, 178,
      180, 182, 184, 186, 302, 306, 310, 314, 318, 322, 327, 331, 335, 339, 343, 347, 352, 356,
      360, 364, 368, 372, 377, 381, 385, 389, 393, 397, 703, 704, 711, 712, 719, 720, 728, 729,
      736, 737, 744, 745, 753, 754, 761, 762, 769, 770, 778, 779, 786, 787, 794, 795},
     {1, 3, 5, 7, 9, 11, 26, 28, 30, 32, 34, 51, 53, 55, 76, 78, 80, 101, 103, 105, 107, 109, 111,
      126, 128, 130, 132, 134, 136, 151, 153, 155, 157, 159, 161, 176, 178, 180, 182, 184, 186,
      202, 206, 210, 214, 218, 222, 227, 231, 235, 239, 243, 247, 252, 256, 260, 264, 268, 272,
      277, 281, 285, 289, 293, 297, 302, 306, 310, 314, 318, 322, 327, 331, 335, 339, 343, 347,
      352, 356, 360, 364, 368, 372, 377, 381, 385, 389, 393, 397, 603, 604, 611, 612, 619, 620,
      628, 629, 636, 637, 644, 645, 653, 654, 661, 662, 669, 670, 678, 679, 686, 687, 694, 695,
      703, 704, 711, 712, 719, 720, 728, 729, 736, 737, 744, 745, 753, 754, 761, 762, 769, 770,
      778, 779, 786, 787, 794, 795},
     {102, 106, 110, 127, 131, 135, 152, 156, 160, 177, 181, 185, 202, 206, 210, 214, 218, 222,
      227, 231, 235, 239, 243, 247, 252, 256, 260, 264, 268, 272, 277, 281, 285, 289, 293, 297,
      302, 306, 310, 314, 318, 322, 327, 331, 335, 339, 343, 347, 352, 356, 360, 364, 368, 372,
      377, 381, 385, 389, 393, 397, 503, 504, 511, 512, 519, 520, 528, 529, 536, 537, 544, 545,
      553, 554, 561, 562, 569, 570, 578, 579, 586, 587, 594, 595, 603, 604, 611, 612, 619, 620,
      628, 629, 636, 637, 644, 645, 653, 654, 661, 662, 669, 670, 678, 679, 686, 687, 694, 695,
      703, 704, 711, 712, 719, 720, 728, 729, 736, 737, 744, 745, 753, 754, 761, 762, 769, 770,
      778, 779, 786, 787, 794, 795}
  >>

\* hi / 100 - lo / 100 >= width in floats, hi and lo in cents: decided by the decimals unless they
\* tie, and then by the rounding of the subtraction (no answer outside the table)
FloatDiffAtLeast(hi, lo, width) ==
  IF hi - lo # 100 * width THEN hi - lo > 100 * width
  ELSE CASE lo >= 0 /\ lo <= 1300 -> lo \notin FLOAT_DIFF_BELOW[width]

\* the price-sanity test of a vertical: net <= 0 or net >= width, net = received - paid
PriceInconsistent(received, paid, width) ==
  received - paid <= 0 \/ FloatDiffAtLeast(received, paid, width)

\* the ties of the price-sanity test of an Iron Condor, net_credit = (sell_put + sell_call) -
\* (buy_put + buy_call) in floats against 0 and against max_width: TRUE when the floats reject
FLOAT_CONDOR_TIES == <<>>

\* the price-sanity test of an Iron Condor: net_credit <= 0 or net_credit >= max_width; decided by
\* the decimals unless they tie, and then by the rounding of the sums (no answer outside the table)
CondorInconsistent(sell_put, sell_call, buy_put, buy_call, max_width) ==
  IF (sell_put + sell_call) - (buy_put + buy_call) \notin {0, 100 * max_width}
  THEN (sell_put + sell_call) - (buy_put + buy_call) < 0
       \/ (sell_put + sell_call) - (buy_put + buy_call) > 100 * max_width
  ELSE FLOAT_CONDOR_TIES[<<sell_put, sell_call, buy_put, buy_call>>]

\* Iron Condor, the pricing and the three gates, once the four rows are chosen
IronCondorPriced(dte, budget, exp, target_width, sell_put, buy_put, sell_call, buy_call) ==
  LET sell_put_price == get_mid_price(sell_put)
      sell_call_price == get_mid_price(sell_call)
      buy_put_price == get_mid_price(buy_put)
      buy_call_price == get_mid_price(buy_call)
      net_credit == (sell_put_price + sell_call_price) - (buy_put_price + buy_call_price)
      put_width == sell_put.strike - buy_put.strike
      call_width == buy_call.strike - sell_call.strike
      max_width == Max2(put_width, call_width)
  IN IF put_width > target_width * 3 \/ call_width > target_width * 3 THEN Reject("strike_spacing")
     ELSE IF CondorInconsistent(sell_put_price, sell_call_price, buy_put_price, buy_call_price, max_width) THEN Reject("price_inconsistency")
     ELSE IF (max_width * 100) * 100 - net_credit * 100 > budget * 100 THEN Reject("budget")
     ELSE Draft("Iron Condor",
                << Leg("SELL", "Put", sell_put.strike, exp, dte, sell_put_price),
                   Leg("BUY", "Put", buy_put.strike, exp, dte, buy_put_price),
                   Leg("SELL", "Call", sell_call.strike, exp, dte, sell_call_price),
                   Leg("BUY", "Call", buy_call.strike, exp, dte, buy_call_price) >>,
                net_credit * 100, (max_width * 100) * 100 - net_credit * 100, net_credit * 100)

\* Iron Condor, the protective wings: on each side the strike beyond the short one that is
\* nearest to one target width away
IronCondorWings(calls, puts, spot, dte, budget, exp, sell_put, sell_call) ==
  LET candidates_put == {s \in Strikes(puts) : s < sell_put.strike}
      candidates_call == {s \in Strikes(calls) : s > sell_call.strike}
  IN IF candidates_put = {} THEN Reject("no_protection")
     ELSE IF candidates_call = {} THEN Reject("no_protection")
     ELSE IronCondorPriced(dte, budget, exp, TargetWidth(spot), sell_put,
            RowAt(puts, NearestStrike(candidates_put, sell_put.strike - TargetWidth(spot))),
            sell_call,
            RowAt(calls, NearestStrike(candidates_call, sell_call.strike + TargetWidth(spot))))

\* (a variant of IronCondorSymmetric: the short strikes stay where the deltas put them)
IronCondorSymmetric_by_delta(calls, puts, spot, dte, budget, exp, sell_put_d, sell_call_d) ==
  IF sell_put_d = None \/ sell_call_d = None THEN Reject("no_strike")
  ELSE IronCondorWings(calls, puts, spot, dte, budget, exp, sell_put_d, sell_call_d)

\* Iron Condor, the symmetry step: both short strikes moved to the smaller of the two distances
\* from the spot, each snapped to the nearest listed strike on its side of the spot
IronCondorSymmetric(calls, puts, spot, dte, budget, exp, sell_put_d, sell_call_d) ==
  IF sell_put_d = None \/ sell_call_d = None THEN Reject("no_strike")
  ELSE
  LET sym_dist == Min2(spot - sell_put_d.strike, sell_call_d.strike - spot)
      sell_put_candidates == {s \in Strikes(puts) : s < spot}
      sell_call_candidates == {s \in Strikes(calls) : s > spot}
  IN IF sell_put_candidates # {} /\ sell_call_candidates # {}
     THEN IronCondorWings(calls, puts, spot, dte, budget, exp,
            RowAt(puts, NearestStrike(sell_put_candidates, spot - sym_dist)),
            RowAt(calls, NearestStrike(sell_call_candidates, spot + sym_dist)))
     ELSE IronCondorWings(calls, puts, spot, dte, budget, exp, sell_put_d, sell_call_d)

\* the Iron Condor builder (High regime, Neutre; repeated for Mid regime, Neutre without the Wheel budget)
IronCondor(calls, puts, spot, dte, sigma, budget, exp) ==
  IronCondorSymmetric(calls, puts, spot, dte, budget, exp,
    find_strike_by_delta(puts, spot, dte, sigma, -160000, "put"),
    find_strike_by_delta(calls, spot, dte, sigma, 160000, "call"))

\* the strikes of a chain strictly beyond strike k, away from the money for the side
Beyond(chain, k, below) ==
  {s \in Strikes(chain) : IF below THEN s < k ELSE s > k}

\* the second leg of a vertical: the strike beyond the first leg's nearest to one target width away
SecondLeg(chain, first_strike, below, target_width) ==
  RowAt(chain, NearestStrike(Beyond(chain, first_strike, below),
                             IF below THEN first_strike - target_width
                             ELSE first_strike + target_width))

\* a credit vertical, the pricing and the three gates, once the two rows are chosen
CreditVerticalPriced(name, type, dte, budget, exp, target_width, sell_row, buy_row) ==
  LET sell_price == get_mid_price(sell_row)
      buy_price == get_mid_price(buy_row)
      net_credit == sell_price - buy_price
      width == Abs(sell_row.strike - buy_row.strike)
  IN IF width > target_width * 3 THEN Reject("strike_spacing")
     ELSE IF PriceInconsistent(sell_price, buy_price, width) THEN Reject("price_inconsistency")
     ELSE IF (width * 100) * 100 - net_credit * 100 > budget * 100 THEN Reject("budget")
     ELSE Draft(name,
                << Leg("SELL", type, sell_row.strike, exp, dte, sell_price),
                   Leg("BUY", type, buy_row.strike, exp, dte, buy_price) >>,
                net_credit * 100, (width * 100) * 100 - net_credit * 100, net_credit * 100)

\* a credit vertical, the protection: the long leg beyond the short one
CreditVerticalLong(name, chain, type, below, spot, dte, budget, exp, sell_row) ==
  IF sell_row = None THEN Reject("no_strike")
  ELSE IF Beyond(chain, sell_row.strike, below) = {} THEN Reject("no_protection")
  ELSE CreditVerticalPriced(name, type, dte, budget, exp, TargetWidth(spot), sell_row,
                            SecondLeg(chain, sell_row.strike, below, TargetWidth(spot)))

\* the two credit verticals: Bull Put Spread (puts, short -0.20 delta, long below) and
\* Bear Call Spread (calls, short +0.20 delta, long above)
CreditVertical(name, chain, type, option_type, target_delta, below, spot, dte, sigma, budget, exp) ==
  CreditVerticalLong(name, chain, type, below, spot, dte, budget, exp,
    find_strike_by_delta(chain, spot, dte, sigma, target_delta, option_type))

\* a debit vertical, the pricing and the three gates, once the two rows are chosen
DebitVerticalPriced(name, type, dte, budget, exp, target_width, buy_row, sell_row) ==
  LET buy_price == get_mid_price(buy_row)
      sell_price == get_mid_price(sell_row)
      net_debit == buy_price - sell_price
      width == Abs(buy_row.strike - sell_row.strike)
  IN IF width > target_width * 3 THEN Reject("strike_spacing")
     ELSE IF PriceInconsistent(buy_price, sell_price, width) THEN Reject("price_inconsistency")
     ELSE IF net_debit * 100 > budget * 100 THEN Reject("budget")
     ELSE Draft(name,
                << Leg("BUY", type, buy_row.strike, exp, dte, buy_price),
                   Leg("SELL", type, sell_row.strike, exp, dte, sell_price) >>,
                -(net_debit * 100), net_debit * 100, (width * 100) * 100 - net_debit * 100)

\* a debit vertical, the financing: the short leg beyond the long one
DebitVerticalShort(name, chain, type, below, spot, dte, budget, exp, buy_row) ==
  IF buy_row = None THEN Reject("no_strike")
  ELSE IF Beyond(chain, buy_row.strike, below) = {} THEN Reject("no_protection")
  ELSE DebitVerticalPriced(name, type, dte, budget, exp, TargetWidth(spot), buy_row,
                           SecondLeg(chain, buy_row.strike, below, TargetWidth(spot)))

\* the debit verticals: Bear Put Spread (puts, long -0.45 or -0.50 delta, short below) and
\* Bull Call Spread (calls, long +0.50 delta, short above)
DebitVertical(name, chain, type, option_type, target_delta, below, spot, dte, sigma, budget, exp) ==
  DebitVerticalShort(name, chain, type, below, spot, dte, budget, exp,
    find_strike_by_delta(chain, spot, dte, sigma, target_delta, option_type))

\* PMCC, the pricing and the two gates, once the two rows are chosen
PMCCPriced(leaps, dte, budget, exp, buy_call, sell_call) ==
  IF buy_call = None \/ sell_call = None THEN Reject("no_strike")
  ELSE
  LET buy_call_price == get_mid_price(buy_call)
      sell_call_price == get_mid_price(sell_call)
      net_debit == buy_call_price - sell_call_price
  IN IF net_debit <= 0 THEN Reject("price_inconsistency")
     ELSE IF net_debit * 100 > budget * 100 THEN Reject("budget")
     ELSE Draft("PMCC (Diagonal Spread)",
                << Leg("BUY", "Call", buy_call.strike, leaps.exp, leaps.dte, buy_call_price),
                   Leg("SELL", "Call", sell_call.strike, exp, dte, sell_call_price) >>,
                -(net_debit * 100), net_debit * 100,
                Max2(((sell_call.strike - buy_call.strike) * 100 - net_debit) * 100, 0))

\* the PMCC builder (Low regime, Haussier): a LEAPS call bought, a short-dated call sold
PMCC(calls, leaps, spot, dte, sigma, budget, exp) ==
  IF leaps = None THEN Reject("no_leaps")
  ELSE PMCCPriced(leaps, dte, budget, exp,
         find_strike_by_delta(leaps.calls, spot, leaps.dte, estimate_sigma(leaps.calls), 800000, "call"),
         find_strike_by_delta(calls, spot, dte, sigma, 300000, "call"))

\* df.iloc[(df["strike"] - target).abs().argsort()[:1]]: the row nearest to target, the first on a tie;
\* target and the strikes scaled by the same factor
NearestRow(df, scale, target) ==
  df[FirstArgMin([i \in DOMAIN df |-> Abs(scale * df[i].strike - target)])]

\* the row of a chain at strike k, or the nearest one when k is not listed
RowAtOrNearest(df, k) ==
  IF k \in Strikes(df) THEN RowAt(df, k) ELSE NearestRow(df, 1, k)

\* Calendar Spread, the pricing and the two gates, once the two rows are chosen
CalendarPriced(dte, budget, exp, short_chain, short_row, long_row) ==
  LET sell_price == get_mid_price(short_row)
      buy_price == get_mid_price(long_row)
      net_debit == buy_price - sell_price
  IN IF net_debit <= 0 THEN Reject("price_inconsistency")
     ELSE IF net_debit * 100 > budget * 100 THEN Reject("budget")
     ELSE Draft("Calendar Spread",
                << Leg("BUY", "Call", short_row.strike, exp, dte, buy_price),
                   Leg("SELL", "Call", short_row.strike, short_chain.exp, short_chain.dte, sell_price) >>,
                -(net_debit * 100), net_debit * 100, RoundHalfEven(net_debit * 100, 2))

\* Calendar Spread, the long leg: the row of the main chain at the strike of the short leg
CalendarLong(calls, dte, budget, exp, short_chain, short_row) ==
  CalendarPriced(dte, budget, exp, short_chain, short_row, RowAtOrNearest(calls, short_row.strike))

\* the Calendar Spread builder (Low regime, Neutre): the ATM call bought, the short-term ATM call sold
CalendarSpread(calls, short_chain, spot, dte, budget, exp) ==
  IF short_chain = None THEN Reject("no_short_term")
  ELSE IF short_chain.calls = <<>> THEN Crash("IndexError")
  ELSE CalendarLong(calls, dte, budget, exp, short_chain,
                    RowAtOrNearest(short_chain.calls, NearestStrike(Strikes(calls), spot)))

\* puts[puts["strike"] * 100 - sell_put_price * 100 <= budget]
LowerPuts(puts, sell_put_price, budget) ==
  LET affordable(row) == (row.strike * 100) * 100 - sell_put_price * 100 <= budget * 100
  IN SelectSeq(puts, affordable)

\* (a variant of CashSecuredPutPriced: the leg is not recorded)
CashSecuredPutPriced_no_leg(dte, exp, sell_put) ==
  Draft("Cash Secured Put (The Wheel)", << >>,
        get_mid_price(sell_put) * 100,
        (sell_put.strike * 100) * 100 - get_mid_price(sell_put) * 100,
        get_mid_price(sell_put) * 100)

\* Cash Secured Put, the result once the put is chosen: no gate on the price or on max_risk
CashSecuredPutPriced(dte, exp, sell_put) ==
  LET sell_put_price == get_mid_price(sell_put)
  IN Draft("Cash Secured Put (The Wheel)",
           << Leg("SELL", "Put", sell_put.strike, exp, dte, sell_put_price) >>,
           sell_put_price * 100, (sell_put.strike * 100) * 100 - sell_put_price * 100,
           sell_put_price * 100)

\* Cash Secured Put, the budget step: over budget, the put is replaced by the one of lower_puts
\* nearest to budget / 100, lower_puts being computed with the price of the put it replaces
CashSecuredPutFit(puts, dte, budget, exp, sell_put_d) ==
  IF sell_put_d = None THEN Reject("no_strike")
  ELSE IF (sell_put_d.strike * 100) * 100 - get_mid_price(sell_put_d) * 100 <= budget * 100
    THEN CashSecuredPutPriced(dte, exp, sell_put_d)
  ELSE IF LowerPuts(puts, get_mid_price(sell_put_d), budget) = <<>> THEN Reject("budget")
  ELSE CashSecuredPutPriced(dte, exp,
         NearestRow(LowerPuts(puts, get_mid_price(sell_put_d), budget), 100, budget))

\* the Cash Secured Put builder (Mid regime, budget >= 100 x spot, bias not Baissier)
CashSecuredPut(puts, spot, dte, sigma, budget, exp) ==
  CashSecuredPutFit(puts, dte, budget, exp,
    find_strike_by_delta(puts, spot, dte, sigma, -250000, "put"))

\* (a variant of HighRegime: the IV-rank threshold included)
HighRegime_inclusive(a) == a.iv_rank >= 50 \/ a.vix > 20

\* CAS A: iv_rank > 50 or vix > 20
HighRegime(a) == a.iv_rank > 50 \/ a.vix > 20

\* CAS B, tested when CAS A is not: iv_rank < 20 and vix < 15
LowRegime(a) == a.iv_rank < 20 /\ a.vix < 15

\* (a variant of CanWheel: the budget strictly above 100 x spot)
CanWheel_strict(a) == a.budget > a.spot * 100

\* can_wheel = budget >= spot * 100
CanWheel(a) == a.budget >= a.spot * 100

\* the regime and bias dispatch of build_strategy: CAS A (high volatility), CAS B (low), CAS C (mid)
BuildDraft(calls, puts, a, m, sigma) ==
  IF HighRegime(a) THEN
    IF a.bias = "Neutre" THEN IronCondor(calls, puts, a.spot, m.dte, sigma, a.budget, m.exp)
    ELSE IF a.bias = "Haussier"
      THEN CreditVertical("Bull Put Spread", puts, "Put", "put", -200000, TRUE,
                          a.spot, m.dte, sigma, a.budget, m.exp)
    ELSE CreditVertical("Bear Call Spread", calls, "Call", "call", 200000, FALSE,
                        a.spot, m.dte, sigma, a.budget, m.exp)
  ELSE IF LowRegime(a) THEN
    IF a.bias = "Haussier" THEN PMCC(calls, m.leaps, a.spot, m.dte, sigma, a.budget, m.exp)
    ELSE IF a.bias = "Neutre" THEN CalendarSpread(calls, m.short, a.spot, m.dte, a.budget, m.exp)
    ELSE DebitVertical("Bear Put Spread (Debit)", puts, "Put", "put", -450000, TRUE,
                       a.spot, m.dte, sigma, a.budget, m.exp)
  ELSE
    IF CanWheel(a) /\ a.bias # "Baissier"
      THEN CashSecuredPut(puts, a.spot, m.dte, sigma, a.budget, m.exp)
    ELSE IF a.bias = "Haussier"
      THEN DebitVertical("Bull Call Spread", calls, "Call", "call", 500000, FALSE,
                         a.spot, m.dte, sigma, a.budget, m.exp)
    ELSE IF a.bias = "Baissier"
      THEN DebitVertical("Bear Put Spread", puts, "Put", "put", -500000, TRUE,
                         a.spot, m.dte, sigma, a.budget, m.exp)
    ELSE IronCondor(calls, puts, a.spot, m.dte, sigma, a.budget, m.exp)

-----------------------------------------------------------------------------
(* engine/strategy.py: build_strategy, from the exit plan to the return.   *)

\* the implied volatility is used for the move when compute_historical_vol returns None:
\* sigma_move = compute_historical_vol(ticker) or sigma
SigmaMove(hv) == IF hv = "none" THEN "implied" ELSE hv

\* compute_real_probabilities(...)["expected_pnl"], in cents.  The numerical integration is not
\* computed here: its result is an input of the model, one of the values of EvLevels, placed
\* relative to the max_risk it is given (all of it lost, one cent below a fifth of it lost,
\* exactly a fifth of it lost, two fifths of it won).
ExpectedPnl(level, max_risk) == (level.fifths * max_risk) \div 5 + level.cents

\* the sum of one Greek over the legs, each leg at its own dte
RECURSIVE NetGreek(_, _, _, _)
NetGreek(legs, S, sigma, k) ==
  IF legs = <<>> THEN 0
  ELSE compute_leg_greeks(Head(legs), S, Head(legs).dte, sigma)[k] + NetGreek(Tail(legs), S, sigma, k)

\* the weekday of a day number (0 = Monday); day 0 is a Thursday
Weekday(date) == (date + 3) % 7

\* the message of the liquidity rejection carries a hint when the NYSE is closed
MarketHint(now) == ~(Weekday(now.date) < 5 /\ now.in_session)

\* qty = max(1, int(budget // max_risk)) when max_risk > 0, else 1
PositionSize(budget, max_risk) ==
  IF max_risk > 0 THEN Max2(1, (budget * 100) \div max_risk) ELSE 1

\* round(x * qty, 2) under "if qty > 1"
Scaled(x, qty) == IF qty > 1 THEN x * qty ELSE x

\* (a variant of EvRejected: the threshold at a quarter of max_risk)
EvRejected_quarter(ev, max_risk) == 4 * ev < -max_risk

\* the EV kill switch: ev < -0.20 * max_risk
EvRejected(ev, max_risk) == 5 * ev < -max_risk

\* (a variant of Sized: the take-profit target is left at its value for one contract)
Sized_unit_target(d, a, m, sigma, now, expected_pnl, qty) ==
  IF EvRejected(Scaled(expected_pnl, qty), Scaled(d.max_risk, qty)) THEN Reject("negative_ev")
  ELSE [kind |-> "strategy",
        name |-> d.name,
        legs |-> d.legs,
        credit_or_debit |-> Scaled(d.credit_or_debit, qty),
        max_risk |-> Scaled(d.max_risk, qty),
        max_profit |-> Scaled(d.max_profit, qty),
        expiration |-> m.exp,
        dte |-> m.dte,
        exit_plan |-> [take_profit |-> RoundHalfEven(Abs(d.max_profit), 2),
                       time_stop_date |-> m.exp - 21,
                       time_stop_dte |-> (m.exp - 21) - now.date],
        sigma |-> sigma,
        ev |-> Scaled(expected_pnl, qty),
        greeks |-> [k \in {"delta", "gamma", "theta", "vega"} |->
                      Scaled(NetGreek(d.legs, a.spot, sigma, k), qty)],
        qty |-> qty]

\* the EV kill switch on the scaled values, and the returned record
Sized(d, a, m, sigma, now, expected_pnl, qty) ==
  IF EvRejected(Scaled(expected_pnl, qty), Scaled(d.max_risk, qty)) THEN Reject("negative_ev")
  ELSE [kind |-> "strategy",
        name |-> d.name,
        legs |-> d.legs,
        credit_or_debit |-> Scaled(d.credit_or_debit, qty),
        max_risk |-> Scaled(d.max_risk, qty),
        max_profit |-> Scaled(d.max_profit, qty),
        expiration |-> m.exp,
        dte |-> m.dte,
        exit_plan |-> [take_profit |-> Scaled(RoundHalfEven(Abs(d.max_profit), 2), qty),
                       time_stop_date |-> m.exp - 21,
                       time_stop_dte |-> (m.exp - 21) - now.date],
        sigma |-> sigma,
        ev |-> Scaled(expected_pnl, qty),
        greeks |-> [k \in {"delta", "gamma", "theta", "vega"} |->
                      Scaled(NetGreek(d.legs, a.spot, sigma, k), qty)],
        qty |-> qty]

\* a raise in a builder ends the call; else the exit plan, where strptime(exp_str, "%Y-%m-%d")
\* raises ValueError on a label of another format; then probabilities, Greeks, position sizing
\* and the EV kill switch
Finish(d, a, m, sigma, now, hv, oracle) ==
  IF d.kind = "rejected" THEN d
  ELSE IF m.exp_format # "%Y-%m-%d" THEN Crash("ValueError")
  ELSE Sized(d, a, m, sigma, now, ExpectedPnl(oracle[SigmaMove(hv)], d.max_risk),
             PositionSize(a.budget, d.max_risk))

\* (a variant of TooFewRows: both sides must be short of rows)
TooFewRows_both(calls, puts) == Len(calls) < 3 /\ Len(puts) < 3

\* len(calls) < 3 or len(puts) < 3, on the filtered chain
TooFewRows(calls, puts) == Len(calls) < 3 \/ Len(puts) < 3

\* (a variant of PennyStock: a lower threshold)
PennyStock_lower(spot) == spot < 9

\* spot < 10
PennyStock(spot) == spot < 10

\* build_strategy after the chain is filtered: the liquidity gate, then the penny-stock gate,
\* then the structure
Gated(a, m, now, hv, oracle, calls, puts) ==
  IF TooFewRows(calls, puts)
    THEN [kind |-> "rejected", error |-> "ValueError", reason |-> "liquidity",
          market_hint |-> MarketHint(now)]
  ELSE IF PennyStock(a.spot) THEN Reject("penny_stock")
  ELSE Finish(BuildDraft(calls, puts, a, m, estimate_sigma(calls \o puts)),
              a, m, estimate_sigma(calls \o puts), now, hv, oracle)

\* build_strategy(spot, vix, iv_rank, bias, budget, ticker, data_provider=...)
build_strategy(a, m, now, hv, oracle) ==
  Gated(a, m, now, hv, oracle, filter_liquid_options(m.calls), filter_liquid_options(m.puts))

-----------------------------------------------------------------------------
(* app.py: the build_strategy of the monolith the interface and the scan   *)
(* call.  It is the text of engine/strategy.py without the gates on the    *)
(* width of the spreads, on the get_mid_price and filter_liquid_options of *)
(* app.py; the exit plan, the integrator, the sizing and the kill switch   *)
(* are the same code and share their definitions with the engine.          *)

\* filter_liquid_options of app.py: the three exclusions, no quote made up from lastPrice
app_filter_liquid_options(df) ==
  IF df = <<>> THEN df ELSE SelectSeq(df, IsLiquid)

\* Iron Condor, the pricing and the two gates, once the four rows are chosen
app_IronCondorPriced(dte, budget, exp, target_width, sell_put, buy_put, sell_call, buy_call) ==
  LET sell_put_price == app_get_mid_price(sell_put)
      sell_call_price == app_get_mid_price(sell_call)
      buy_put_price == app_get_mid_price(buy_put)
      buy_call_price == app_get_mid_price(buy_call)
      net_credit == (sell_put_price + sell_call_price) - (buy_put_price + buy_call_price)
      put_width == sell_put.strike - buy_put.strike
      call_width == buy_call.strike - sell_call.strike
      max_width == Max2(put_width, call_width)
  IN IF CondorInconsistent(sell_put_price, sell_call_price, buy_put_price, buy_call_price, max_width) THEN Reject("price_inconsistency")
     ELSE IF (max_width * 100) * 100 - net_credit * 100 > budget * 100 THEN Reject("budget")
     ELSE Draft("Iron Condor",
                << Leg("SELL", "Put", sell_put.strike, exp, dte, sell_put_price),
                   Leg("BUY", "Put", buy_put.strike, exp, dte, buy_put_price),
                   Leg("SELL", "Call", sell_call.strike, exp, dte, sell_call_price),
                   Leg("BUY", "Call", buy_call.strike, exp, dte, buy_call_price) >>,
                net_credit * 100, (max_width * 100) * 100 - net_credit * 100, net_credit * 100)

\* Iron Condor, the protective wings: on each side the strike beyond the short one that is
\* nearest to one target width away
app_IronCondorWings(calls, puts, spot, dte, budget, exp, sell_put, sell_call) ==
  LET candidates_put == {s \in Strikes(puts) : s < sell_put.strike}
      candidates_call == {s \in Strikes(calls) : s > sell_call.strike}
  IN IF candidates_put = {} THEN Reject("no_protection")
     ELSE IF candidates_call = {} THEN Reject("no_protection")
     ELSE app_IronCondorPriced(dte, budget, exp, TargetWidth(spot), sell_put,
            RowAt(puts, NearestStrike(candidates_put, sell_put.strike - TargetWidth(spot))),
            sell_call,
            RowAt(calls, NearestStrike(candidates_call, sell_call.strike + TargetWidth(spot))))

\* Iron Condor, the symmetry step: both short strikes moved to the smaller of the two distances
\* from the spot, each snapped to the nearest listed strike on its side of the spot
app_IronCondorSymmetric(calls, puts, spot, dte, budget, exp, sell_put_d, sell_call_d) ==
  IF sell_put_d = None \/ sell_call_d = None THEN Reject("no_strike")
  ELSE
  LET sym_dist == Min2(spot - sell_put_d.strike, sell_call_d.strike - spot)
      sell_put_candidates == {s \in Strikes(puts) : s < spot}
      sell_call_candidates == {s \in Strikes(calls) : s > spot}
  IN IF sell_put_candidates # {} /\ sell_call_candidates # {}
     THEN app_IronCondorWings(calls, puts, spot, dte, budget, exp,
            RowAt(puts, NearestStrike(sell_put_candidates, spot - sym_dist)),
            RowAt(calls, NearestStrike(sell_call_candidates, spot + sym_dist)))
     ELSE app_IronCondorWings(calls, puts, spot, dte, budget, exp, sell_put_d, sell_call_d)

\* the Iron Condor builder (High regime, Neutre; repeated for Mid regime, Neutre without the Wheel budget)
app_IronCondor(calls, puts, spot, dte, sigma, budget, exp) ==
  app_IronCondorSymmetric(calls, puts, spot, dte, budget, exp,
    find_strike_by_delta(puts, spot, dte, sigma, -160000, "put"),
    find_strike_by_delta(calls, spot, dte, sigma, 160000, "call"))

\* a credit vertical, the pricing and the two gates, once the two rows are chosen
app_CreditVerticalPriced(name, type, dte, budget, exp, target_width, sell_row, buy_row) ==
  LET sell_price == app_get_mid_price(sell_row)
      buy_price == app_get_mid_price(buy_row)
      net_credit == sell_price - buy_price
      width == Abs(sell_row.strike - buy_row.strike)
  IN IF PriceInconsistent(sell_price, buy_price, width) THEN Reject("price_inconsistency")
     ELSE IF (width * 100) * 100 - net_credit * 100 > budget * 100 THEN Reject("budget")
     ELSE Draft(name,
                << Leg("SELL", type, sell_row.strike, exp, dte, sell_price),
                   Leg("BUY", type, buy_row.strike, exp, dte, buy_price) >>,
                net_credit * 100, (width * 100) * 100 - net_credit * 100, net_credit * 100)

\* a credit vertical, the protection: the long leg beyond the short one
app_CreditVerticalLong(name, chain, type, below, spot, dte, budget, exp, sell_row) ==
  IF sell_row = None THEN Reject("no_strike")
  ELSE IF Beyond(chain, sell_row.strike, below) = {} THEN Reject("no_protection")
  ELSE app_CreditVerticalPriced(name, type, dte, budget, exp, TargetWidth(spot), sell_row,
                            SecondLeg(chain, sell_row.strike, below, TargetWidth(spot)))

\* the two credit verticals: Bull Put Spread (puts, short -0.20 delta, long below) and
\* Bear Call Spread (calls, short +0.20 delta, long above)
app_CreditVertical(name, chain, type, option_type, target_delta, below, spot, dte, sigma, budget, exp) ==
  app_CreditVerticalLong(name, chain, type, below, spot, dte, budget, exp,
    find_strike_by_delta(chain, spot, dte, sigma, target_delta, option_type))

\* a debit vertical, the pricing and the two gates, once the two rows are chosen
app_DebitVerticalPriced(name, type, dte, budget, exp, target_width, buy_row, sell_row) ==
  LET buy_price == app_get_mid_price(buy_row)
      sell_price == app_get_mid_price(sell_row)
      net_debit == buy_price - sell_price
      width == Abs(buy_row.strike - sell_row.strike)
  IN IF PriceInconsistent(buy_price, sell_price, width) THEN Reject("price_inconsistency")
     ELSE IF net_debit * 100 > budget * 100 THEN Reject("budget")
     ELSE Draft(name,
                << Leg("BUY", type, buy_row.strike, exp, dte, buy_price),
                   Leg("SELL", type, sell_row.strike, exp, dte, sell_price) >>,
                -(net_debit * 100), net_debit * 100, (width * 100) * 100 - net_debit * 100)

\* a debit vertical, the financing: the short leg beyond the long one
app_DebitVerticalShort(name, chain, type, below, spot, dte, budget, exp, buy_row) ==
  IF buy_row = None THEN Reject("no_strike")
  ELSE IF Beyond(chain, buy_row.strike, below) = {} THEN Reject("no_protection")
  ELSE app_DebitVerticalPriced(name, type, dte, budget, exp, TargetWidth(spot), buy_row,
                           SecondLeg(chain, buy_row.strike, below, TargetWidth(spot)))

\* the debit verticals: Bear Put Spread (puts, long -0.45 or -0.50 delta, short below) and
\* Bull Call Spread (calls, long +0.50 delta, short above)
app_DebitVertical(name, chain, type, option_type, target_delta, below, spot, dte, sigma, budget, exp) ==
  app_DebitVerticalShort(name, chain, type, below, spot, dte, budget, exp,
    find_strike_by_delta(chain, spot, dte, sigma, target_delta, option_type))

\* PMCC, the pricing and the two gates, once the two rows are chosen
app_PMCCPriced(leaps, dte, budget, exp, buy_call, sell_call) ==
  IF buy_call = None \/ sell_call = None THEN Reject("no_strike")
  ELSE
  LET buy_call_price == app_get_mid_price(buy_call)
      sell_call_price == app_get_mid_price(sell_call)
      net_debit == buy_call_price - sell_call_price
  IN IF net_debit <= 0 THEN Reject("price_inconsistency")
     ELSE IF net_debit * 100 > budget * 100 THEN Reject("budget")
     ELSE Draft("PMCC (Diagonal Spread)",
                << Leg("BUY", "Call", buy_call.strike, leaps.exp, leaps.dte, buy_call_price),
                   Leg("SELL", "Call", sell_call.strike, exp, dte, sell_call_price) >>,
                -(net_debit * 100), net_debit * 100,
                Max2(((sell_call.strike - buy_call.strike) * 100 - net_debit) * 100, 0))

\* the PMCC builder (Low regime, Haussier): a LEAPS call bought, a short-dated call sold
app_PMCC(calls, leaps, spot, dte, sigma, budget, exp) ==
  IF leaps = None THEN Reject("no_leaps")
  ELSE app_PMCCPriced(leaps, dte, budget, exp,
         find_strike_by_delta(leaps.calls, spot, leaps.dte, estimate_sigma(leaps.calls), 800000, "call"),
         find_strike_by_delta(calls, spot, dte, sigma, 300000, "call"))

\* Calendar Spread, the pricing and the two gates, once the two rows are chosen
app_CalendarPriced(dte, budget, exp, short_chain, short_row, long_row) ==
  LET sell_price == app_get_mid_price(short_row)
      buy_price == app_get_mid_price(long_row)
      net_debit == buy_price - sell_price
  IN IF net_debit <= 0 THEN Reject("price_inconsistency")
     ELSE IF net_debit * 100 > budget * 100 THEN Reject("budget")
     ELSE Draft("Calendar Spread",
                << Leg("BUY", "Call", short_row.strike, exp, dte, buy_price),
                   Leg("SELL", "Call", short_row.strike, short_chain.exp, short_chain.dte, sell_price) >>,
                -(net_debit * 100), net_debit * 100, RoundHalfEven(net_debit * 100, 2))

\* Calendar Spread, the long leg: the row of the main chain at the strike of the short leg
app_CalendarLong(calls, dte, budget, exp, short_chain, short_row) ==
  app_CalendarPriced(dte, budget, exp, short_chain, short_row, RowAtOrNearest(calls, short_row.strike))

\* the Calendar Spread builder (Low regime, Neutre): the ATM call bought, the short-term ATM call sold
app_CalendarSpread(calls, short_chain, spot, dte, budget, exp) ==
  IF short_chain = None THEN Reject("no_short_term")
  ELSE IF short_chain.calls = <<>> THEN Crash("IndexError")
  ELSE app_CalendarLong(calls, dte, budget, exp, short_chain,
                    RowAtOrNearest(short_chain.calls, NearestStrike(Strikes(calls), spot)))

\* Cash Secured Put, the result once the put is chosen: no gate on the price or on max_risk
app_CashSecuredPutPriced(dte, exp, sell_put) ==
  LET sell_put_price == app_get_mid_price(sell_put)
  IN Draft("Cash Secured Put (The Wheel)",
           << Leg("SELL", "Put", sell_put.strike, exp, dte, sell_put_price) >>,
           sell_put_price * 100, (sell_put.strike * 100) * 100 - sell_put_price * 100,
           sell_put_price * 100)

\* Cash Secured Put, the budget step: over budget, the put is replaced by the one of lower_puts
\* nearest to budget / 100, lower_puts being computed with the price of the put it replaces
app_CashSecuredPutFit(puts, dte, budget, exp, sell_put_d) ==
  IF sell_put_d = None THEN Reject("no_strike")
  ELSE IF (sell_put_d.strike * 100) * 100 - app_get_mid_price(sell_put_d) * 100 <= budget * 100
    THEN app_CashSecuredPutPriced(dte, exp, sell_put_d)
  ELSE IF LowerPuts(puts, app_get_mid_price(sell_put_d), budget) = <<>> THEN Reject("budget")
  ELSE app_CashSecuredPutPriced(dte, exp,
         NearestRow(LowerPuts(puts, app_get_mid_price(sell_put_d), budget), 100, budget))

\* the Cash Secured Put builder (Mid regime, budget >= 100 x spot, bias not Baissier)
app_CashSecuredPut(puts, spot, dte, sigma, budget, exp) ==
  app_CashSecuredPutFit(puts, dte, budget, exp,
    find_strike_by_delta(puts, spot, dte, sigma, -250000, "put"))

\* the regime and bias dispatch of build_strategy: CAS A (high volatility), CAS B (low), CAS C (mid)
app_BuildDraft(calls, puts, a, m, sigma) ==
  IF HighRegime(a) THEN
    IF a.bias = "Neutre" THEN app_IronCondor(calls, puts, a.spot, m.dte, sigma, a.budget, m.exp)
    ELSE IF a.bias = "Haussier"
      THEN app_CreditVertical("Bull Put Spread", puts, "Put", "put", -200000, TRUE,
                          a.spot, m.dte, sigma, a.budget, m.exp)
    ELSE app_CreditVertical("Bear Call Spread", calls, "Call", "call", 200000, FALSE,
                        a.spot, m.dte, sigma, a.budget, m.exp)
  ELSE IF LowRegime(a) THEN
    IF a.bias = "Haussier" THEN app_PMCC(calls, m.leaps, a.spot, m.dte, sigma, a.budget, m.exp)
    ELSE IF a.bias = "Neutre" THEN app_CalendarSpread(calls, m.short, a.spot, m.dte, a.budget, m.exp)
    ELSE app_DebitVertical("Bear Put Spread (Debit)", puts, "Put", "put", -450000, TRUE,
                       a.spot, m.dte, sigma, a.budget, m.exp)
  ELSE
    IF CanWheel(a) /\ a.bias # "Baissier"
      THEN app_CashSecuredPut(puts, a.spot, m.dte, sigma, a.budget, m.exp)
    ELSE IF a.bias = "Haussier"
      THEN app_DebitVertical("Bull Call Spread", calls, "Call", "call", 500000, FALSE,
                         a.spot, m.dte, sigma, a.budget, m.exp)
    ELSE IF a.bias = "Baissier"
      THEN app_DebitVertical("Bear Put Spread", puts, "Put", "put", -500000, TRUE,
                         a.spot, m.dte, sigma, a.budget, m.exp)
    ELSE app_IronCondor(calls, puts, a.spot, m.dte, sigma, a.budget, m.exp)

\* build_strategy after the chain is filtered: the liquidity gate, then the penny-stock gate,
\* then the structure
app_Gated(a, m, now, hv, oracle, calls, puts) ==
  IF TooFewRows(calls, puts)
    THEN [kind |-> "rejected", error |-> "ValueError", reason |-> "liquidity",
          market_hint |-> MarketHint(now)]
  ELSE IF PennyStock(a.spot) THEN Reject("penny_stock")
  ELSE Finish(app_BuildDraft(calls, puts, a, m, estimate_sigma(calls \o puts)),
              a, m, estimate_sigma(calls \o puts), now, hv, oracle)

\* build_strategy(spot, vix, iv_rank, bias, budget, ticker) of app.py
app_build_strategy(a, m, now, hv, oracle) ==
  app_Gated(a, m, now, hv, oracle, app_filter_liquid_options(m.calls), app_filter_liquid_options(m.puts))

-----------------------------------------------------------------------------
(* The inputs: chain snapshots as a data provider returns them (rows in    *)
(* ascending strike order, one row per strike), and the arguments.         *)

\* a chain row with a two-sided quote, no last trade and a deep open interest
Quote(strike, bid, ask, iv) ==
  [strike |-> strike, bid |-> bid, ask |-> ask, lastPrice |-> 0,
   openInterest |-> 500, impliedVolatility |-> iv]

\* a $10 underlying, 45 days to expiration, $1 strikes
BaseCalls ==
  << Quote(9, 112, 114, 2500), Quote(10, 44, 46, 2500), Quote(11, 11, 13, 2500), Quote(12, 2, 2, 2500) >>

BasePuts ==
  << Quote(8, 1, 1, 3500), Quote(9, 6, 8, 3500), Quote(10, 38, 40, 3500), Quote(11, 104, 106, 3500) >>

\* the same underlying with only a far expiration listed and a very high implied volatility:
\* the puts nearest the money are in the money and quoted under their intrinsic value
FarCalls ==
  << Quote(9, 600, 604, 15000), Quote(10, 578, 580, 15000), Quote(11, 558, 560, 15000) >>

FarPuts ==
  << Quote(5, 19, 21, 15000), Quote(11, 94, 96, 15000), Quote(12, 194, 196, 15000) >>

\* a $100 underlying, 45 days to expiration, $5 strikes from 80 to 120 on both sides: the calls
\* and the puts at an implied volatility of 25%, 35% and 45%, quoted around their model price
HundredCalls ==
  (2500 :>
    << Quote(80, 2049, 2051, 2500), Quote(85, 1560, 1562, 2500), Quote(90, 1095, 1097, 2500),
       Quote(95, 689, 691, 2500), Quote(100, 380, 382, 2500), Quote(105, 180, 182, 2500),
       Quote(110, 73, 75, 2500), Quote(115, 25, 27, 2500), Quote(120, 8, 8, 2500) >>)
  @@ (3500 :>
    << Quote(80, 2061, 2063, 3500), Quote(85, 1595, 1597, 3500), Quote(90, 1169, 1171, 3500),
       Quote(95, 806, 808, 3500), Quote(100, 519, 521, 3500), Quote(105, 312, 314, 3500),
       Quote(110, 175, 177, 3500), Quote(115, 91, 93, 3500), Quote(120, 45, 47, 3500) >>)
  @@ (4500 :>
    << Quote(80, 2094, 2096, 4500), Quote(85, 1657, 1659, 4500), Quote(90, 1265, 1267, 4500),
       Quote(95, 930, 932, 4500), Quote(100, 658, 660, 4500), Quote(105, 448, 450, 4500),
       Quote(110, 294, 296, 4500), Quote(115, 186, 188, 4500), Quote(120, 114, 116, 4500) >>)

HundredPuts ==
  (2500 :>
    << Quote(80, 1, 1, 2500), Quote(85, 8, 8, 2500), Quote(90, 39, 41, 2500),
       Quote(95, 130, 132, 2500), Quote(100, 318, 320, 2500), Quote(105, 616, 618, 2500),
       Quote(110, 1006, 1008, 2500), Quote(115, 1454, 1456, 2500), Quote(120, 1933, 1935, 2500) >>)
  @@ (3500 :>
    << Quote(80, 13, 13, 3500), Quote(85, 43, 45, 3500), Quote(90, 114, 116, 3500),
       Quote(95, 247, 249, 3500), Quote(100, 457, 459, 3500), Quote(105, 747, 749, 3500),
       Quote(110, 1107, 1109, 3500), Quote(115, 1521, 1523, 3500), Quote(120, 1971, 1973, 3500) >>)
  @@ (4500 :>
    << Quote(80, 45, 47, 4500), Quote(85, 105, 107, 4500), Quote(90, 210, 212, 4500),
       Quote(95, 372, 374, 4500), Quote(100, 597, 599, 4500), Quote(105, 883, 885, 4500),
       Quote(110, 1226, 1228, 4500), Quote(115, 1615, 1617, 4500), Quote(120, 2040, 2042, 4500) >>)

\* the chain without the rows at the strikes of D
Without(chain, D) ==
  LET listed(row) == row.strike \notin D
  IN SelectSeq(chain, listed)

\* the strikes at the same distance from the spot on the other side
Mirror(D, spot) == {2 * spot - k : k \in D}

\* the ways a quote of a chain can differ from the base quote
Alterations == {"last_only", "dead", "thin", "wide", "no_ask", "rich", "cheap", "dear"}

Alter(row, how) ==
  CASE how = "last_only" -> [row EXCEPT !.bid = 0, !.ask = 0, !.lastPrice = get_mid_price(row)]
    [] how = "dead"      -> [row EXCEPT !.bid = 0, !.ask = 0]
    [] how = "thin"      -> [row EXCEPT !.openInterest = 5]
    [] how = "wide"      -> [row EXCEPT !.ask = 3 * row.bid]
    [] how = "no_ask"    -> [row EXCEPT !.ask = 0]
    [] how = "rich"      -> [row EXCEPT !.bid = 100 * row.strike, !.ask = 100 * row.strike]
    [] how = "cheap"     -> [row EXCEPT !.bid = 13, !.ask = 13]
    [] how = "dear"      -> [row EXCEPT !.bid = 113, !.ask = 113]

\* the chains that differ from base in exactly the rows of I
AlteredAt(base, I) ==
  { [i \in DOMAIN base |-> IF i \in I THEN Alter(base[i], f[i]) ELSE base[i]] : f \in [I -> Alterations] }

\* the chains that differ from base in at most n rows
AlteredChains(base, n) ==
  UNION { AlteredAt(base, I) : I \in {J \in SUBSET DOMAIN base : Cardinality(J) <= n} }

\* get_leaps_chain: None, or the chain of an expiration about a year away
GoodLeaps ==
  [exp |-> 365, dte |-> 365,
   calls |-> << Quote(7, 334, 338, 2200), Quote(8, 247, 251, 2200),
                Quote(9, 171, 175, 2200), Quote(10, 110, 114, 2200) >>]

LeapsChains ==
  { None,
    GoodLeaps,
    [GoodLeaps EXCEPT !.calls = <<>>],
    [GoodLeaps EXCEPT !.calls[3] = Alter(@, "dead")],
    [GoodLeaps EXCEPT !.calls[3] = Alter(@, "last_only")],
    [GoodLeaps EXCEPT !.calls[3] = Alter(@, "thin")] }

\* get_short_term_chain: None, or the chain of an expiration about 20 days away
GoodShort ==
  [exp |-> 20, dte |-> 20,
   calls |-> << Quote(9, 102, 104, 2500), Quote(10, 24, 26, 2500), Quote(11, 2, 4, 2500) >>]

ShortChains ==
  { None,
    GoodShort,
    [GoodShort EXCEPT !.calls = <<>>],
    [GoodShort EXCEPT !.calls = << GoodShort.calls[1], GoodShort.calls[3] >>],
    [GoodShort EXCEPT !.calls[2] = Alter(@, "dead")],
    [GoodShort EXCEPT !.calls[2] = Alter(@, "rich")] }

\* what data_provider returns for the ticker
\* the format of the expiration label the providers of the repository return
IsoLabel == "%Y-%m-%d"

\* the format of an expiration label as the broker lists it, before the provider rewrites it
RawLabel == "%Y%m%d"

Market(exp, dte, calls, puts, leaps, short) ==
  [exp |-> exp, exp_format |-> IsoLabel, dte |-> dte, calls |-> calls, puts |-> puts,
   leaps |-> leaps, short |-> short]

Biases == {"Neutre", "Haussier", "Baissier"}

\* the integrator's results the model draws from (see ExpectedPnl)
EvLevels ==
  { [fifths |-> -5, cents |-> 0], [fifths |-> -1, cents |-> -1],
    [fifths |-> -1, cents |-> 0], [fifths |-> 2, cents |-> 0] }

EvAroundThreshold == { [fifths |-> -1, cents |-> -1], [fifths |-> -1, cents |-> 0] }

\* compute_historical_vol(ticker): None (less than 30 sessions of history) or a volatility
HistVols == {"none", "h1", "h2"}

Args(spot, vix, iv_rank, bias, budget) ==
  [spot |-> spot, vix |-> vix, iv_rank |-> iv_rank, bias |-> bias, budget |-> budget]

\* the regimes, by a representative (iv_rank, vix) each: high, low, mid
Regimes == { <<60, 25>>, <<10, 12>>, <<30, 18>> }

\* every argument tuple at the regime boundaries, on the base chain
InitRouting ==
  /\ args \in { Args(spot, vix, ivr, bias, budget) :
                  spot \in {9, 10}, vix \in {14, 15, 20, 21}, ivr \in {19, 20, 50, 51},
                  bias \in Biases, budget \in {50, 100, 250, 1000} }
  /\ market = Market(45, 45, BaseCalls, BasePuts, GoodLeaps, GoodShort)
  /\ today \in [date : {0}, in_session : BOOLEAN]
  /\ histVol \in {"none", "h1"}
  /\ integ \in [{SigmaMove(histVol)} -> EvLevels]

\* every chain with altered quotes: on one side, or one altered row on each side
InitQuotes ==
  /\ \E r \in Regimes, bias \in Biases, budget \in {100, 1000} :
       args = Args(10, r[2], r[1], bias, budget)
  /\ \/ \E c \in AlteredChains(BaseCalls, MaxAltered) :
          market = Market(45, 45, c, BasePuts, GoodLeaps, GoodShort)
     \/ \E q \in AlteredChains(BasePuts, MaxAltered) :
          market = Market(45, 45, BaseCalls, q, GoodLeaps, GoodShort)
     \/ \E c \in AlteredChains(BaseCalls, 1), q \in AlteredChains(BasePuts, 1) :
          market = Market(45, 45, c, q, GoodLeaps, GoodShort)
  /\ today = [date |-> 0, in_session |-> TRUE]
  /\ histVol = "none"
  /\ integ \in [{SigmaMove(histVol)} -> EvAroundThreshold]

\* a penny stock on every chain with altered quotes
InitPenny ==
  /\ args = Args(9, 25, 60, "Haussier", 1000)
  /\ \/ \E c \in AlteredChains(BaseCalls, MaxAltered) :
          market = Market(45, 45, c, BasePuts, GoodLeaps, GoodShort)
     \/ \E q \in AlteredChains(BasePuts, MaxAltered) :
          market = Market(45, 45, BaseCalls, q, GoodLeaps, GoodShort)
  /\ today \in [date : {0}, in_session : BOOLEAN]
  /\ histVol = "none"
  /\ integ \in [{SigmaMove(histVol)} -> EvAroundThreshold]

\* the low regime on every LEAPS chain and short-term chain
InitLongShort ==
  /\ \E bias \in {"Haussier", "Neutre"}, budget \in {100, 1000} :
       args = Args(10, 12, 10, bias, budget)
  /\ \E l \in LeapsChains, s \in ShortChains :
       market = Market(45, 45, BaseCalls, BasePuts, l, s)
  /\ today = [date |-> 0, in_session |-> TRUE]
  /\ histVol = "none"
  /\ integ \in [{SigmaMove(histVol)} -> EvAroundThreshold]

\* the mid regime with a Wheel budget on the far, high-volatility chain
InitFar ==
  /\ \E bias \in Biases, budget \in {1000, 1050, 2000} :
       args = Args(10, 18, 30, bias, budget)
  /\ market = Market(400, 400, FarCalls, FarPuts, None, None)
  /\ today = [date |-> 0, in_session |-> TRUE]
  /\ histVol \in {"none", "h1"}
  /\ integ \in [{SigmaMove(histVol)} -> EvLevels]

\* a provider that hands the broker's label on as it is, on the base chain and on a thin one
InitLabel ==
  /\ \E r \in Regimes, bias \in Biases, budget \in {100, 1000} :
       args = Args(10, r[2], r[1], bias, budget)
  /\ \E l \in {GoodLeaps, None}, s \in ShortChains, puts \in {BasePuts, << BasePuts[1], BasePuts[2] >>} :
       market = [Market(45, 45, BaseCalls, puts, l, s) EXCEPT !.exp_format = RawLabel]
  /\ today = [date |-> 0, in_session |-> TRUE]
  /\ histVol = "none"
  /\ integ \in [{SigmaMove(histVol)} -> EvAroundThreshold]

\* the $100 underlying on the $5 chain with up to two strikes not listed: on both sides as
\* mirror images around the spot, or on one side only
InitHundred ==
  /\ \E r \in Regimes, bias \in Biases, budget \in {1000, 20000} :
       args = Args(100, r[2], r[1], bias, budget)
  /\ \E sigma \in DOMAIN HundredCalls :
     \E D \in {E \in SUBSET Strikes(HundredPuts[sigma]) : Cardinality(E) <= 2} :
       \/ market = Market(45, 45, Without(HundredCalls[sigma], Mirror(D, 100)),
                          Without(HundredPuts[sigma], D), None, None)
       \/ market = Market(45, 45, HundredCalls[sigma], Without(HundredPuts[sigma], D), None, None)
       \/ market = Market(45, 45, Without(HundredCalls[sigma], D), HundredPuts[sigma], None, None)
  /\ today = [date |-> 0, in_session |-> TRUE]
  /\ histVol = "none"
  /\ integ \in [{SigmaMove(histVol)} -> EvAroundThreshold]

\* a $200 underlying whose calls carry an implied volatility of 0.5%, $1 strikes: no call is
\* listed at or under the spot, and the puts under the spot are quoted or have no quote at all
OneSidedCalls ==
  << Quote(201, 79, 81, 50), Quote(202, 29, 31, 50), Quote(203, 9, 11, 50) >>

OneSidedPuts ==
  << Quote(198, 9, 11, 50), Quote(199, 24, 26, 50), Quote(200, 49, 51, 50),
     Quote(201, 119, 121, 50), Quote(202, 199, 201, 50) >>

InitOneSided ==
  /\ \E r \in Regimes, budget \in {100, 1000} :
       args = Args(200, r[2], r[1], "Neutre", budget)
  /\ \E how \in {"dead", "thin", "quoted"} :
       market = Market(45, 45, OneSidedCalls,
                       [i \in DOMAIN OneSidedPuts |->
                          IF OneSidedPuts[i].strike < 200 /\ how # "quoted"
                          THEN Alter(OneSidedPuts[i], how) ELSE OneSidedPuts[i]],
                       None, None)
  /\ today = [date |-> 0, in_session |-> TRUE]
  /\ histVol = "none"
  /\ integ \in [{SigmaMove(histVol)} -> EvAroundThreshold]

\* a $100 underlying whose nearest expiration is 20 days away, $5 strikes: what
\* get_options_chain falls back to when no expiration lies 35 to 60 days out
ShortDatedCalls ==
  << Quote(90, 1031, 1033, 2500), Quote(95, 580, 582, 2500), Quote(100, 246, 248, 2500),
     Quote(105, 73, 75, 2500), Quote(110, 14, 16, 2500) >>

ShortDatedPuts ==
  << Quote(90, 6, 8, 2500), Quote(95, 54, 56, 2500), Quote(100, 219, 221, 2500),
     Quote(105, 544, 546, 2500), Quote(110, 984, 986, 2500) >>

InitShortDated ==
  /\ \E r \in Regimes, bias \in Biases, budget \in {1000, 20000} :
       args = Args(100, r[2], r[1], bias, budget)
  /\ market = Market(20, 20, ShortDatedCalls, ShortDatedPuts, None, None)
  /\ today = [date |-> 0, in_session |-> TRUE]
  /\ histVol = "none"
  /\ integ \in [{SigmaMove(histVol)} -> EvAroundThreshold]

Init ==
  /\ results = <<>>
  /\ pc = None
  /\ \/ InitRouting
     \/ InitQuotes
     \/ InitPenny
     \/ InitLongShort
     \/ InitFar
     \/ InitLabel
     \/ InitHundred
     \/ InitOneSided
     \/ InitShortDated

-----------------------------------------------------------------------------
(* The operations *)

\* a call of build_strategy with the arguments, on the snapshot, in the present environment
Call ==
  /\ results' = Append(results, build_strategy(args, market, today, histVol, integ))
  /\ UNCHANGED <<args, market, today, histVol, integ, pc>>

FirstCall == results = <<>> /\ Call

SecondCall == Len(results) = 1 /\ Call

\* midnight passes between two calls; on a weekend day the exchange stays closed
DayPasses ==
  /\ Len(results) = 1
  /\ today.date < MaxDaysElapsed
  /\ \E s \in BOOLEAN :
       /\ Weekday(today.date + 1) >= 5 => ~s
       /\ today' = [date |-> today.date + 1, in_session |-> s]
  /\ UNCHANGED <<args, market, histVol, integ, results, pc>>

\* the opening or the closing bell rings between two calls
BellRings ==
  /\ Len(results) = 1
  /\ Weekday(today.date) < 5
  /\ today' = [today EXCEPT !.in_session = ~@]
  /\ UNCHANGED <<args, market, histVol, integ, results, pc>>

\* the price history compute_historical_vol downloads changes between two calls; the integrator
\* is a function of its arguments, so a sigma_move it has been run with keeps its result
HistoryMoves ==
  /\ Len(results) = 1
  /\ \E hv \in HistVols \ {histVol} :
       /\ histVol' = hv
       /\ IF SigmaMove(hv) \in DOMAIN integ THEN integ' = integ
          ELSE \E level \in EvAroundThreshold : integ' = integ @@ (SigmaMove(hv) :> level)
  /\ UNCHANGED <<args, market, today, results, pc>>

Next == FirstCall

Spec == Init /\ [][Next]_vars

\* a call of the build_strategy of app.py with the same arguments, on the same snapshot, in the
\* same environment
AppCall ==
  /\ pc = None
  /\ pc' = [app |-> app_build_strategy(args, market, today, histVol, integ)]
  /\ UNCHANGED <<args, market, today, histVol, integ, results>>

NextBoth == FirstCall \/ AppCall

\* the two implementations called side by side, in either order
SpecBoth == Init /\ [][NextBoth]_vars

\* two calls with the same arguments on the same snapshot, the environment moving in between
InitTwice ==
  /\ results = <<>>
  /\ pc = None
  /\ \E r \in Regimes, bias \in Biases, budget \in {100, 1000} :
       args = Args(10, r[2], r[1], bias, budget)
  /\ \/ market = Market(45, 45, BaseCalls, BasePuts, GoodLeaps, GoodShort)
     \/ market = Market(45, 45, BaseCalls, << BasePuts[1], BasePuts[2] >>, GoodLeaps, GoodShort)
  /\ today \in [date : {0}, in_session : BOOLEAN]
  /\ histVol \in {"none", "h1"}
  /\ integ \in [{SigmaMove(histVol)} -> EvAroundThreshold]

NextTwice == FirstCall \/ SecondCall \/ DayPasses \/ BellRings \/ HistoryMoves

SpecTwice == InitTwice /\ [][NextTwice]_vars

-----------------------------------------------------------------------------
(* The functions of the engine called on their own: args holds the name of *)
(* the function and its arguments, results the value it returns.           *)

\* the positions of TestProbabilityInvariants.SCENARIOS, each with the sigma it is priced at
BullPutLegs ==
  << Leg("SELL", "Put", 95, 45, 45, 300), Leg("BUY", "Put", 90, 45, 45, 100) >>

IronCondorLegs ==
  << Leg("SELL", "Put", 90, 45, 45, 150), Leg("BUY", "Put", 85, 45, 45, 50),
     Leg("SELL", "Call", 110, 45, 45, 150), Leg("BUY", "Call", 115, 45, 45, 50) >>

BullCallLegs ==
  << Leg("BUY", "Call", 100, 45, 45, 400), Leg("SELL", "Call", 105, 45, 45, 200) >>

Scenarios ==
  { [legs |-> BullPutLegs, sigma |-> 2500], [legs |-> IronCondorLegs, sigma |-> 2000],
    [legs |-> BullCallLegs, sigma |-> 2500] }

\* compute_real_probabilities(legs, spot, dte, sigma, qty, take_profit, max_risk)
InitProbabilities ==
  \E s \in Scenarios, qty \in {1, 2}, take_profit \in {-40000, -10000, 0, 10000, 15000},
     max_risk \in {0, 100, 20000, 30000} :
    args = [fn |-> "compute_real_probabilities", legs |-> s.legs, spot |-> 100, dte |-> 45,
            sigma |-> s.sigma, qty |-> qty, take_profit |-> take_profit, max_risk |-> max_risk,
            sigma_move |-> None]

\* simulate_pnl(legs, target_spot, days_to_target, current_sigma, qty)
InitSimulate ==
  \E legs \in {BullPutLegs, BullCallLegs, << BullCallLegs[1] >>, << BullPutLegs[1] >>},
     target_spot \in {9500, 10000, 10500}, days_to_target \in {0, 1, 21},
     sigma \in {0, 2500}, qty \in {1, 2, 3} :
    args = [fn |-> "simulate_pnl", legs |-> legs, target_spot |-> target_spot,
            days_to_target |-> days_to_target, current_sigma |-> sigma, qty |-> qty]

\* the rows get_mid_price is given: each of bid, ask and lastPrice missing (or null), zero or set
QuotedRows ==
  { [k \in keys |-> v[k]] :
      keys \in SUBSET {"bid", "ask", "lastPrice"},
      v \in [bid : {0, 1, 2, 18}, ask : {0, 2, 3, 19}, lastPrice : {0, 5}] }

\* get_mid_price(row), of engine/strategy.py and of app.py
InitMidPrice ==
  \E fn \in {"get_mid_price", "app.get_mid_price"}, row \in QuotedRows :
    args = [fn |-> fn, row |-> row]

\* the rows filter_liquid_options is given: quotes at a spread of 33%, of 40% (three of them) and
\* of 46%, a quote with no ask, and rows with no bid: never traded, last traded at 0.50 or at 0.25,
\* last traded at 0.50 with a thin open interest
FilterRows ==
  { Quote(1, 10, 14, 2500), Quote(1, 10, 15, 2500), Quote(1, 4, 6, 2500), Quote(1, 18, 27, 2500),
    Quote(1, 10, 16, 2500), Quote(1, 10, 0, 2500),
    [Quote(1, 0, 0, 2500) EXCEPT !.lastPrice = 0],
    [Quote(1, 0, 0, 2500) EXCEPT !.lastPrice = 50],
    [Quote(1, 0, 0, 2500) EXCEPT !.lastPrice = 25],
    [Quote(1, 0, 0, 2500) EXCEPT !.lastPrice = 50, !.openInterest = 5],
    [Quote(1, 10, 14, 2500) EXCEPT !.openInterest = 9] }

\* filter_liquid_options(df), df of at most MaxRows rows, the strikes ascending
InitFilter ==
  \E n \in 0..MaxRows : \E rows \in [1..n -> FilterRows] :
    args = [fn |-> "filter_liquid_options", df |-> [i \in 1..n |-> [rows[i] EXCEPT !.strike = i]]]

\* the pricer and the four Greeks at one point: T and sigma negative, zero or positive; the closed
\* forms are tabulated at a spot of 100
InitPricer ==
  \E S \in {90, 100, 110}, K \in {90, 95, 100, 105, 110}, days \in {-1, 0, 45},
     sigma \in {-2500, 0, 2500}, option_type \in {"call", "put"} :
    /\ (days > 0 /\ sigma > 0) => S = 100
    /\ args = [fn |-> "black_scholes", S |-> S, K |-> K, days |-> days, sigma |-> sigma,
               option_type |-> option_type]

\* the chains of a $100 underlying a Calendar Spread is built on: the ATM strike listed on both
\* expirations, missing on the short one, or missing on both at the strike the short one falls to
CalendarCalls(buy) ==
  { << Quote(95, buy + 420, buy + 420, 2500), Quote(100, buy, buy, 2500),
       Quote(105, buy - 150, buy - 150, 2500) >>,
    << Quote(100, buy, buy, 2500), Quote(105, buy - 150, buy - 150, 2500),
       Quote(110, buy - 200, buy - 200, 2500) >> }

CalendarShorts(sell) ==
  { [exp |-> 20, dte |-> 20,
     calls |-> << Quote(95, sell + 420, sell + 420, 2500), Quote(100, sell, sell, 2500),
                  Quote(105, sell - 100, sell - 100, 2500) >>],
    [exp |-> 20, dte |-> 20,
     calls |-> << Quote(95, sell, sell, 2500), Quote(105, sell - 100, sell - 100, 2500) >>] }

\* build_strategy in the Low regime with bias Neutre, from the builder on, the integrator being
\* compute_real_probabilities itself
InitCalendar ==
  \E buy \in {260, 400}, sell \in {150, 259, 260, 300}, budget \in {100, 250, 1000} :
    \E calls \in CalendarCalls(buy), short \in CalendarShorts(sell) :
      args = [fn |-> "calendar", spot |-> 100, vix |-> 12, iv_rank |-> 10, bias |-> "Neutre",
              budget |-> budget, dte |-> 45, exp |-> 45, sigma |-> 2500,
              calls |-> calls, short |-> short]

InitFunctions ==
  /\ results = <<>>
  /\ pc = None
  /\ market = None /\ today = None /\ histVol = "none" /\ integ = None
  /\ \/ InitProbabilities
     \/ InitSimulate
     \/ InitMidPrice
     \/ InitFilter
     \/ InitPricer
     \/ InitCalendar

CallProbabilities ==
  /\ results = <<>>
  /\ args.fn = "compute_real_probabilities"
  /\ results' = << compute_real_probabilities(args.legs, args.spot, args.dte, args.sigma, args.qty,
                                              args.take_profit, args.max_risk, args.sigma_move) >>
  /\ UNCHANGED <<args, market, today, histVol, integ, pc>>

CallSimulate ==
  /\ results = <<>>
  /\ args.fn = "simulate_pnl"
  /\ results' = << simulate_pnl(args.legs, args.target_spot, args.days_to_target,
                                args.current_sigma, args.qty) >>
  /\ UNCHANGED <<args, market, today, histVol, integ, pc>>

CallMidPrice ==
  /\ results = <<>>
  /\ args.fn = "get_mid_price"
  /\ results' = << get_mid_price(args.row) >>
  /\ UNCHANGED <<args, market, today, histVol, integ, pc>>

CallAppMidPrice ==
  /\ results = <<>>
  /\ args.fn = "app.get_mid_price"
  /\ results' = << app_get_mid_price(args.row) >>
  /\ UNCHANGED <<args, market, today, histVol, integ, pc>>

CallFilter ==
  /\ results = <<>>
  /\ args.fn = "filter_liquid_options"
  /\ results' = << filter_liquid_options(args.df) >>
  /\ UNCHANGED <<args, market, today, histVol, integ, pc>>

\* black_scholes_price, _delta, _gamma, _theta and _vega at the same point
CallPricer ==
  /\ results = <<>>
  /\ args.fn = "black_scholes"
  /\ results' = << [price |-> black_scholes_price(100 * args.S, args.K, args.days, args.sigma,
                                                  args.option_type),
                    delta |-> black_scholes_delta(args.S, args.K, args.days, args.sigma,
                                                  args.option_type),
                    gamma |-> black_scholes_gamma(args.S, args.K, args.days, args.sigma),
                    theta |-> black_scholes_theta(args.S, args.K, args.days, args.sigma,
                                                  args.option_type),
                    vega |-> black_scholes_vega(args.S, args.K, args.days, args.sigma)] >>
  /\ UNCHANGED <<args, market, today, histVol, integ, pc>>

\* the P&L of the legs at each point of the integrator's grid, as compute_real_probabilities
\* asks simulate_pnl for it
GridPnl(legs, spot, dte, sigma, qty) ==
  [i \in DOMAIN Z_VALUES |->
     simulate_pnl(legs, GBM_TABLE[<<spot, dte, sigma>>][i], remaining_dte(dte), sigma, qty)]

\* the tail of build_strategy on a draft: compute_real_probabilities with qty = 1, sizing, kill switch
Integrate(d, a) ==
  IF d.kind = "rejected" THEN [draft |-> d, pnl |-> <<>>, outcome |-> d]
  ELSE [draft |-> d,
        pnl |-> GridPnl(d.legs, a.spot, a.dte, a.sigma, 1),
        outcome |-> Sized(d, a, Market(a.exp, a.dte, a.calls, <<>>, None, a.short), a.sigma,
                          [date |-> 0, in_session |-> TRUE],
                          compute_real_probabilities(d.legs, a.spot, a.dte, a.sigma, 1,
                                                     RoundHalfEven(Abs(d.max_profit), 2),
                                                     d.max_risk, None).expected_pnl,
                          PositionSize(a.budget, d.max_risk))]

CallCalendar ==
  /\ results = <<>>
  /\ args.fn = "calendar"
  /\ results' = << Integrate(CalendarSpread(args.calls, args.short, args.spot, args.dte,
                                            args.budget, args.exp), args) >>
  /\ UNCHANGED <<args, market, today, histVol, integ, pc>>

NextFunctions ==
  \/ CallProbabilities \/ CallSimulate \/ CallMidPrice \/ CallAppMidPrice \/ CallFilter
  \/ CallPricer \/ CallCalendar

SpecFunctions == InitFunctions /\ [][NextFunctions]_vars

-----------------------------------------------------------------------------
(* app.py: the multi-ticker scan.                                          *)
(* args holds the ticker list (the tickers are numbered in list order),    *)
(* market what the body of the loop meets for each pair, results the rows  *)
(* of scan_results, pc the position of the loop and the pairs              *)
(* build_strategy has been called with.                                    *)

\* biases = ["Haussier", "Neutre", "Baissier"]
ScanBiases == << "Haussier", "Neutre", "Baissier" >>

\* what the body of the loop meets for one pair: get_spot_price, get_vol_index or compute_iv_rank
\* raises; build_strategy raises ValueError; build_strategy raises another exception;
\* build_strategy returns a strategy
PairOutcomes == {"fetch_raises", "rejected", "crashed", "strategy"}

\* the scan button is pressed: scan_results = [], the loop at the first pair
InitScan ==
  /\ \E n \in 0..MaxTickers :
       /\ args = [fn |-> "scan", TICKER_LIST |-> [i \in 1..n |-> i]]
       /\ market \in [1..n -> [{ScanBiases[b] : b \in 1..3} -> PairOutcomes]]
  /\ today = None /\ histVol = "none" /\ integ = None
  /\ results = <<>>
  /\ pc = [i |-> 1, b |-> 1, attempted |-> <<>>, done |-> FALSE]

\* the position of the loop after the pair at <<i, b>>
NextPair(i, b) == IF b < Len(ScanBiases) THEN <<i, b + 1>> ELSE <<i + 1, 1>>

\* (a variant of ScanPair: an exception ends the scan)
ScanPair_abort ==
  /\ ~pc.done /\ pc.i <= Len(args.TICKER_LIST)
  /\ LET t == args.TICKER_LIST[pc.i]
         b == ScanBiases[pc.b]
         met == market[t][b]
     IN /\ pc' = [pc EXCEPT
                    !.i = IF met = "strategy" THEN NextPair(pc.i, pc.b)[1]
                          ELSE Len(args.TICKER_LIST) + 1,
                    !.b = NextPair(pc.i, pc.b)[2],
                    !.attempted = IF met = "fetch_raises" THEN @ ELSE Append(@, <<t, b>>)]
        /\ results' = IF met = "strategy" THEN Append(results, [Ticker |-> t, Biais |-> b])
                      ELSE results
  /\ UNCHANGED <<args, market, today, histVol, integ>>

\* one pass of the body of `for b in biases`: the three fetches, build_strategy, the indicators and
\* scan_results.append, all inside try; `except Exception: continue`
ScanPair ==
  /\ ~pc.done /\ pc.i <= Len(args.TICKER_LIST)
  /\ LET t == args.TICKER_LIST[pc.i]
         b == ScanBiases[pc.b]
         met == market[t][b]
     IN /\ pc' = [pc EXCEPT
                    !.i = NextPair(pc.i, pc.b)[1],
                    !.b = NextPair(pc.i, pc.b)[2],
                    !.attempted = IF met = "fetch_raises" THEN @ ELSE Append(@, <<t, b>>)]
        /\ results' = IF met = "strategy" THEN Append(results, [Ticker |-> t, Biais |-> b])
                      ELSE results
  /\ UNCHANGED <<args, market, today, histVol, integ>>

\* the loop is over: progress_bar.empty() and the table
ScanEnds ==
  /\ ~pc.done /\ pc.i > Len(args.TICKER_LIST)
  /\ pc' = [pc EXCEPT !.done = TRUE]
  /\ UNCHANGED <<args, market, today, histVol, integ, results>>

NextScan == ScanPair \/ ScanEnds

\* the script runs in one thread from the button to the table: a step that can be taken is taken
SpecScan == InitScan /\ [][NextScan]_vars /\ WF_vars(NextScan)

-----------------------------------------------------------------------------
(* The HybridProvider of data/hybrid_provider.py.  pc holds the provider:  *)
(* whether an IBKRProvider was built, its _connected flag, the             *)
(* _ibkr_available flag and the last_source dict.  Whether TWS answers at  *)
(* the time of a call, and what the IBKR call meets, are inputs.           *)

DataMethods ==
  {"get_spot_price", "get_vol_index", "get_options_chain", "get_leaps_chain",
   "get_short_term_chain"}

\* what a call on the IBKRProvider meets: a result, an exception, or an exception whose
\* message names the connection or a timeout
IbkrOutcomes == {"result", "error", "connection_lost"}

\* dict assignment d[k] = v
Assign(d, k, v) == [x \in DOMAIN d \cup {k} |-> IF x = k THEN v ELSE d[x]]

\* __init__: the IBKRProvider is built when ib_insync is there, and is available when
\* connect() went through
InitHybrid ==
  /\ args = [fn |-> "HybridProvider"]
  /\ \E HAS_IB_INSYNC \in BOOLEAN, tws \in BOOLEAN :
       /\ market = [HAS_IB_INSYNC |-> HAS_IB_INSYNC, tws |-> tws]
       /\ pc = [ibkr |-> HAS_IB_INSYNC,
                connected |-> HAS_IB_INSYNC /\ tws,
                ibkr_available |-> HAS_IB_INSYNC /\ tws,
                last_source |-> [x \in {} |-> "yfinance"]]
  /\ today = None /\ histVol = "none" /\ integ = None
  /\ results = <<>>

\* IBKRProvider._ensure_connected: nothing when never connected; a stale socket is reconnected,
\* and the flag falls when that fails
ensure_connected(connected, tws) == connected /\ tws

\* _try_ibkr: the provider after the call and whether IBKR served
try_ibkr(p, method_name, tws, met) ==
  IF ~p.ibkr THEN [p |-> p, ok |-> FALSE]
  ELSE LET c1 == IF p.ibkr_available THEN p.connected
                 ELSE ensure_connected(p.connected, tws)
       IN IF ~p.ibkr_available /\ ~c1
          THEN [p |-> [p EXCEPT !.connected = c1], ok |-> FALSE]
          ELSE LET c2 == ensure_connected(c1, tws)
                   q == [p EXCEPT !.connected = c2, !.ibkr_available = TRUE]
               IN IF c2 /\ met = "result"
                  THEN [p |-> [q EXCEPT !.last_source = Assign(@, method_name, "IBKR")],
                        ok |-> TRUE]
                  ELSE IF ~c2 \/ met = "connection_lost"
                  THEN [p |-> [q EXCEPT !.ibkr_available = FALSE], ok |-> FALSE]
                  ELSE [p |-> q, ok |-> FALSE]

\* a call of _try_ibkr; no method of the class calls it
TryIbkr ==
  \E method_name \in DataMethods, tws \in BOOLEAN, met \in IbkrOutcomes :
    LET r == try_ibkr(pc, method_name, tws, met)
    IN /\ pc' = r.p
       /\ market' = [market EXCEPT !.tws = tws]
       /\ results' = << [call |-> "_try_ibkr", method |-> method_name,
                         ibkr_usable |-> pc.ibkr /\ tws /\ met = "result",
                         tried |-> IF pc.ibkr THEN <<"IBKR">> ELSE <<>>,
                         served |-> IF r.ok THEN "IBKR" ELSE "nobody"] >>
       /\ UNCHANGED <<args, today, histVol, integ>>

\* one of the five data methods: the source is recorded and yfinance is called
DataMethod ==
  \E method_name \in DataMethods, tws \in BOOLEAN, met \in IbkrOutcomes :
    /\ pc' = [pc EXCEPT !.last_source = Assign(@, method_name, "yfinance")]
    /\ market' = [market EXCEPT !.tws = tws]
    /\ results' = << [call |-> "data", method |-> method_name,
                      ibkr_usable |-> pc.ibkr /\ tws /\ met = "result",
                      tried |-> <<"yfinance">>,
                      served |-> "yfinance"] >>
    /\ UNCHANGED <<args, today, histVol, integ>>

NextHybrid == DataMethod \/ TryIbkr

SpecHybrid == InitHybrid /\ [][NextHybrid]_vars

-----------------------------------------------------------------------------
(* The properties.  A property about "the call" is stated on the first     *)
(* call; the second call of SpecTwice is there for the comparison.         *)

\* build_strategy has been called
Called == Len(results) >= 1

\* build_strategy has been called and returned a strategy
Returned == Called /\ results[1].kind = "strategy"

\* the call ended in a ValueError with this message
RejectedFor(reason) ==
  Called /\ results[1].kind = "rejected" /\ results[1].reason = reason

\* the regimes as the specification words them
SpecHigh == args.iv_rank > 50 \/ args.vix > 20

SpecLow == ~SpecHigh /\ args.iv_rank < 20 /\ args.vix < 15

\* C1: a returned strategy is, in the High regime (iv_rank > 50 or vix > 20), the Iron Condor for
\* Neutre, the Bull Put Spread for Haussier and the Bear Call Spread for Baissier; in the Low regime
\* (not High, iv_rank < 20 and vix < 15) the Calendar Spread, the PMCC and the debit Bear Put Spread;
\* iv_rank = 50 with vix = 20 is routed as Mid, and iv_rank = 20 or vix = 15 never gives a Low structure
C1_HighLowRouting ==
  Returned =>
    /\ SpecHigh =>
         results[1].name = CASE args.bias = "Neutre" -> "Iron Condor"
                             [] args.bias = "Haussier" -> "Bull Put Spread"
                             [] args.bias = "Baissier" -> "Bear Call Spread"
    /\ SpecLow =>
         results[1].name = CASE args.bias = "Neutre" -> "Calendar Spread"
                             [] args.bias = "Haussier" -> "PMCC (Diagonal Spread)"
                             [] args.bias = "Baissier" -> "Bear Put Spread (Debit)"
    /\ (args.iv_rank = 50 /\ args.vix = 20) =>
         results[1].name \in {"Cash Secured Put (The Wheel)", "Iron Condor",
                              "Bull Call Spread", "Bear Put Spread"}
    /\ (args.iv_rank = 20 \/ args.vix = 15) =>
         results[1].name \notin {"Calendar Spread", "PMCC (Diagonal Spread)", "Bear Put Spread (Debit)"}

\* High by the volatility index alone, the IV rank being under the Low threshold
C1_Witness ==
  /\ Returned
  /\ args.iv_rank = 19 /\ args.vix = 21
  /\ results[1].name = "Bear Call Spread"

\* C2: in the Mid regime a returned strategy is the Bear Put Spread for Baissier whatever the budget;
\* for Haussier the Cash Secured Put if budget >= 100 x spot, else the Bull Call Spread; for Neutre
\* the Cash Secured Put if budget >= 100 x spot, else the Iron Condor
C2_MidRouting ==
  (Returned /\ ~SpecHigh /\ ~SpecLow) =>
    results[1].name =
      CASE args.bias = "Baissier" -> "Bear Put Spread"
        [] args.bias = "Haussier" -> IF args.budget >= 100 * args.spot
                                     THEN "Cash Secured Put (The Wheel)" ELSE "Bull Call Spread"
        [] args.bias = "Neutre" -> IF args.budget >= 100 * args.spot
                                   THEN "Cash Secured Put (The Wheel)" ELSE "Iron Condor"

\* the budget is exactly 100 x spot and the Wheel is chosen
C2_Witness ==
  /\ Returned
  /\ ~SpecHigh /\ ~SpecLow
  /\ args.bias = "Haussier" /\ args.budget = 100 * args.spot
  /\ results[1].name = "Cash Secured Put (The Wheel)"

\* C3: every returned strategy has a per-contract max_risk (max_risk / qty) that is at most the
\* budget, the Cash Secured Put included
C3_RiskWithinBudget ==
  Returned => results[1].max_risk <= results[1].qty * (args.budget * 100)

\* C3, the part that holds: every returned strategy other than the Cash Secured Put has a
\* per-contract max_risk that is at most the budget
C3_RiskWithinBudgetExceptWheel ==
  (Returned /\ results[1].name # "Cash Secured Put (The Wheel)") =>
    results[1].max_risk <= results[1].qty * (args.budget * 100)

\* a Cash Secured Put is returned whose risk for one contract is above the budget
C3_OverBudgetReturned ==
  /\ Returned
  /\ results[1].name = "Cash Secured Put (The Wheel)"
  /\ results[1].qty = 1
  /\ results[1].max_risk > args.budget * 100

\* the rows of each side of the snapshot that survive filter_liquid_options
SurvivingCalls == Len(filter_liquid_options(market.calls))

SurvivingPuts == Len(filter_liquid_options(market.puts))

\* C4: a call with spot < 10 ends in the penny-stock rejection, whatever the chain, its liquidity,
\* the regime, the bias and the budget
C4_PennyWhateverTheChain ==
  (Called /\ args.spot < 10) => RejectedFor("penny_stock")

\* C4, amended: a call with spot < 10 is always rejected: with the liquidity rejection when fewer
\* than 3 rows survive the filter on the call side or on the put side, with the penny-stock
\* rejection otherwise
C4_PennyAfterLiquidity ==
  (Called /\ args.spot < 10) =>
    IF SurvivingCalls < 3 \/ SurvivingPuts < 3
    THEN RejectedFor("liquidity")
    ELSE RejectedFor("penny_stock")

\* a penny stock on a chain that lost a row to the filter and still has three on each side
C4_Witness ==
  /\ args.spot < 10
  /\ SurvivingCalls = 3 /\ SurvivingPuts >= 3
  /\ RejectedFor("penny_stock")

\* the call gets past the liquidity gate and the penny-stock gate
PastTheGates == SurvivingCalls >= 3 /\ SurvivingPuts >= 3 /\ args.spot >= 10

\* what the builder of the routed structure leaves in result, for one contract: a draft, or the
\* rejection it raised (read only when PastTheGates)
UnitDraft ==
  BuildDraft(filter_liquid_options(market.calls), filter_liquid_options(market.puts), args, market,
             estimate_sigma(filter_liquid_options(market.calls) \o filter_liquid_options(market.puts)))

\* the expected P&L the integrator gives for one contract of the draft
UnitEv == ExpectedPnl(integ[SigmaMove(histVol)], UnitDraft.max_risk)

\* the expiration label parses, so the call gets to the integrator and to position sizing
Sizing == market.exp_format = IsoLabel

\* C5: a call that reaches position sizing with an expected P&L under -0.20 x max_risk (for one
\* contract, hence also after both are multiplied by qty) ends in the EV rejection, and no
\* returned strategy has ev < -0.20 x max_risk
C5_EvKillSwitch ==
  /\ (Called /\ PastTheGates /\ UnitDraft.kind = "draft" /\ Sizing
        /\ 5 * UnitEv < -UnitDraft.max_risk)
       => RejectedFor("negative_ev")
  /\ Returned => 5 * results[1].ev >= -results[1].max_risk

\* the expected P&L is one cent under the threshold, for a position of several contracts
C5_Witness ==
  /\ RejectedFor("negative_ev")
  /\ integ[SigmaMove(histVol)] = [fifths |-> -1, cents |-> -1]
  /\ 2 * UnitDraft.max_risk <= args.budget * 100

\* C6: every returned strategy has max_risk > 0
C6_PositiveRisk ==
  Returned => results[1].max_risk > 0

\* C6, the part that holds: no returned strategy has max_risk < 0
C6_NoNegativeRisk ==
  Returned => results[1].max_risk >= 0

\* a Cash Secured Put is returned whose put is quoted at its strike: nothing is at risk
C6_NoRiskReturned ==
  /\ Returned
  /\ results[1].name = "Cash Secured Put (The Wheel)"
  /\ results[1].max_risk = 0
  /\ results[1].qty = 1

\* the premium received less the premium paid over the legs, in cents per share
RECURSIVE NetReceived(_)
NetReceived(legs) ==
  IF legs = <<>> THEN 0
  ELSE (IF Head(legs).action = "SELL" THEN Head(legs).price ELSE -Head(legs).price)
       + NetReceived(Tail(legs))

\* the distance between the strikes of legs i and j, in cents per share
WidthCents(legs, i, j) == 100 * Abs(legs[i].strike - legs[j].strike)

\* C7: a returned Iron Condor, Bull Put Spread or Bear Call Spread has 0 < net credit < width (the
\* larger of the two widths for the Iron Condor) and credit_or_debit > 0; a returned Bear Put Spread
\* or Bull Call Spread has 0 < net debit < width and credit_or_debit < 0; a returned PMCC or Calendar
\* Spread has net debit > 0
C7_PriceSanity ==
  Returned =>
    LET s == results[1]
        net == NetReceived(s.legs)
    IN /\ s.name = "Iron Condor" =>
            /\ 0 < net
            /\ net < Max2(WidthCents(s.legs, 1, 2), WidthCents(s.legs, 3, 4))
            /\ s.credit_or_debit > 0
       /\ s.name \in {"Bull Put Spread", "Bear Call Spread"} =>
            /\ 0 < net
            /\ net < WidthCents(s.legs, 1, 2)
            /\ s.credit_or_debit > 0
       /\ s.name \in {"Bear Put Spread", "Bear Put Spread (Debit)", "Bull Call Spread"} =>
            /\ 0 < -net
            /\ -net < WidthCents(s.legs, 1, 2)
            /\ s.credit_or_debit < 0
       /\ s.name \in {"PMCC (Diagonal Spread)", "Calendar Spread"} => 0 < -net

\* C7, the part that holds: the same with "net <= width" in place of "net < width" for the verticals
C7_PriceSanityUpToATie ==
  Returned =>
    LET s == results[1]
        net == NetReceived(s.legs)
    IN /\ s.name = "Iron Condor" =>
            /\ 0 < net
            /\ net < Max2(WidthCents(s.legs, 1, 2), WidthCents(s.legs, 3, 4))
            /\ s.credit_or_debit > 0
       /\ s.name \in {"Bull Put Spread", "Bear Call Spread"} =>
            /\ 0 < net
            /\ net <= WidthCents(s.legs, 1, 2)
            /\ s.credit_or_debit > 0
       /\ s.name \in {"Bear Put Spread", "Bear Put Spread (Debit)", "Bull Call Spread"} =>
            /\ 0 < -net
            /\ -net <= WidthCents(s.legs, 1, 2)
            /\ s.credit_or_debit < 0
       /\ s.name \in {"PMCC (Diagonal Spread)", "Calendar Spread"} => 0 < -net

\* a Bull Put Spread is returned whose net credit is the whole width: 1.13 - 0.13 for $1
C7_CreditOfTheWholeWidth ==
  /\ Returned
  /\ results[1].name = "Bull Put Spread"
  /\ results[1].legs[1].price = 113 /\ results[1].legs[2].price = 13
  /\ WidthCents(results[1].legs, 1, 2) = 100
  /\ results[1].max_risk = 0

\* q = max(1, floor(budget / unit)), budget and unit in cents, stated without the division: for a
\* positive unit q is 1 or q units fit the budget, and one unit more does not fit; for a negative
\* unit the quotient is negative and q is 1; for unit = 0 there is no quotient
IsSize(q, budget, unit) ==
  IF unit > 0 THEN /\ q >= 1
                   /\ q = 1 \/ q * unit <= budget
                   /\ (q + 1) * unit > budget
  ELSE unit < 0 /\ q = 1

\* every dollar output of the returned strategy s is the value for one contract multiplied by q
ScaledOnce(s, q) ==
  /\ s.max_risk = q * UnitDraft.max_risk
  /\ s.max_profit = q * UnitDraft.max_profit
  /\ s.credit_or_debit = q * UnitDraft.credit_or_debit
  /\ 2 * s.exit_plan.take_profit = q * Abs(UnitDraft.max_profit)
  /\ s.ev = q * UnitEv
  /\ \A k \in {"delta", "gamma", "theta", "vega"} :
       s.greeks[k] = q * NetGreek(s.legs, args.spot, s.sigma, k)

\* C8: in every returned strategy qty = max(1, floor(budget / max_risk for one contract)), every
\* dollar output is its value for one contract multiplied by qty, and when one contract fits the
\* budget, qty contracts fit it and qty + 1 do not
C8_Sizing ==
  Returned =>
    /\ IsSize(results[1].qty, args.budget * 100, UnitDraft.max_risk)
    /\ ScaledOnce(results[1], results[1].qty)
    /\ UnitDraft.max_risk <= args.budget * 100 =>
         /\ results[1].max_risk <= args.budget * 100
         /\ args.budget * 100 < results[1].max_risk + UnitDraft.max_risk

\* C8, the part that holds: the same for every returned strategy whose max_risk for one contract
\* is positive
C8_SizingOfPositiveRisk ==
  (Returned /\ UnitDraft.max_risk > 0) =>
    /\ IsSize(results[1].qty, args.budget * 100, UnitDraft.max_risk)
    /\ ScaledOnce(results[1], results[1].qty)
    /\ UnitDraft.max_risk <= args.budget * 100 =>
         /\ results[1].max_risk <= args.budget * 100
         /\ args.budget * 100 < results[1].max_risk + UnitDraft.max_risk

\* several contracts of a structure are returned
C8_SeveralContracts ==
  /\ Returned
  /\ results[1].qty >= 3
  /\ results[1].max_risk = results[1].qty * UnitDraft.max_risk

\* a strategy is returned with qty = 1 although no number of contracts exhausts the budget
C8_NoRiskSized ==
  /\ Returned
  /\ UnitDraft.max_risk = 0
  /\ results[1].qty = 1

\* C9: when fewer than 3 rows survive filter_liquid_options on the call side or on the put side the
\* call ends in the liquidity rejection; when at least 3 survive on both sides it does not
C9_LiquidityGate ==
  Called =>
    IF SurvivingCalls < 3 \/ SurvivingPuts < 3
    THEN RejectedFor("liquidity")
    ELSE ~RejectedFor("liquidity")

\* two rows survive on one side only, and the call is rejected for liquidity
C9_Witness ==
  /\ RejectedFor("liquidity")
  /\ SurvivingCalls = 2
  /\ SurvivingPuts = 4

C10_ClockInTheResult ==
  /\ Len(results) = 2
  /\ results[1].kind = "strategy" /\ results[2].kind = "strategy"
  /\ results[1].legs = results[2].legs
  /\ results[1].exit_plan.time_stop_dte # results[2].exit_plan.time_stop_dte

\* a strategy is returned, then rejected, the downloaded price history having changed
C10_HistoryInTheResult ==
  /\ Len(results) = 2
  /\ today.date = 0
  /\ results[1].kind = "strategy"
  /\ results[2].kind = "rejected" /\ results[2].reason = "negative_ev"

-----------------------------------------------------------------------------
(* The legs of the returned strategy, under Spec *)

\* C13 as claimed: every returned strategy holds exactly 2 or exactly 4 legs
C13_TwoOrFourLegs ==
  Returned => Len(results[1].legs) \in {2, 4}

\* C13 as amended: a returned Cash Secured Put holds exactly 1 leg, a returned Iron Condor exactly
\* 4, every other returned strategy (verticals, Calendar Spread, PMCC) exactly 2
C13_LegsByStructure ==
  Returned =>
    Len(results[1].legs) = CASE results[1].name = "Cash Secured Put (The Wheel)" -> 1
                             [] results[1].name = "Iron Condor" -> 4
                             [] OTHER -> 2

\* a Cash Secured Put is returned: one short put
C13_Witness ==
  /\ Returned
  /\ results[1].name = "Cash Secured Put (The Wheel)"
  /\ Len(results[1].legs) = 1 /\ results[1].legs[1].action = "SELL" /\ results[1].legs[1].type = "Put"

\* an Iron Condor is returned: four legs, the short put first
C13_CondorReturned ==
  /\ Returned
  /\ results[1].name = "Iron Condor"
  /\ Len(results[1].legs) = 4 /\ results[1].legs[1].action = "SELL" /\ results[1].legs[1].type = "Put"

\* C14: no returned strategy contains a leg whose entry price is 0.0
C14_NoLegPricedZero ==
  Returned => \A i \in 1..Len(results[1].legs) : results[1].legs[i].price # 0

-----------------------------------------------------------------------------
(* The rejections and the internal errors, under Spec *)

\* the call ended in an exception of the class
Raised(class) == Len(results) = 1 /\ results[1].kind = "rejected" /\ results[1].error = class

\* C15: a rejection raised for a policy reason and an unexpected internal error never surface
\* as the same error category; every policy rejection is a ValueError, so no internal error is
C15_PolicyAndInternalApart ==
  /\ Len(results) = 1 /\ results[1].kind = "rejected" /\ results[1].reason # "internal"
       => results[1].error = "ValueError"
  /\ Len(results) = 1 /\ results[1].kind = "rejected" /\ results[1].reason = "internal"
       => results[1].error # "ValueError"

\* a label of the broker's format ends the call in a ValueError, as a policy rejection does
C15_LabelSurfacesAsPolicy ==
  /\ market.exp_format = RawLabel
  /\ Raised("ValueError") /\ results[1].reason = "internal"

\* an empty short-term chain ends the call in an IndexError, no policy category
C15_SchemaSurfacesApart ==
  Raised("IndexError") /\ results[1].reason = "internal"

-----------------------------------------------------------------------------
(* The widths and the symmetry of the returned spreads, under Spec *)

VerticalNames ==
  {"Bull Put Spread", "Bear Call Spread", "Bear Put Spread (Debit)", "Bull Call Spread",
   "Bear Put Spread"}

\* the sides of a returned structure, each the positions of its first and of its protective leg
Sides(r) ==
  IF r.name = "Iron Condor" THEN {<<1, 2>>, <<3, 4>>}
  ELSE IF r.name \in VerticalNames THEN {<<1, 2>>}
  ELSE {}

\* the strikes build_strategy chooses among, on the side of a leg
Available(leg) ==
  Strikes(filter_liquid_options(IF leg.type = "Put" THEN market.puts ELSE market.calls))

\* the protective strike is one of the strikes strictly beyond the first strike, none of them is
\* nearer to the first strike plus or minus the target, and the width is at most three targets;
\* the target in thousandths of a dollar
SideWithin(first, second, target) ==
  LET below == first.type = "Put"
      beyond == Beyond(filter_liquid_options(IF below THEN market.puts ELSE market.calls),
                       first.strike, below)
      aim == IF below THEN 1000 * first.strike - target ELSE 1000 * first.strike + target
  IN /\ second.strike \in beyond
     /\ \A s \in beyond : Abs(1000 * second.strike - aim) <= Abs(1000 * s - aim)
     /\ 1000 * Abs(first.strike - second.strike) <= 3 * target

\* spot x 0.015 with a minimum of $1, in thousandths of a dollar
ClaimedTarget(spot) == Max2(1000, 15 * spot)

\* C16: in every returned vertical spread and Iron Condor each protective strike is the available
\* strike strictly beyond the first strike that is nearest to the first strike plus or minus the
\* target width, and every side is at most 3 target widths wide, the target width being
\* spot x 0.015 with a minimum of $1
C16_WidthWithinThreeTargets ==
  Returned =>
    \A side \in Sides(results[1]) :
      SideWithin(results[1].legs[side[1]], results[1].legs[side[2]], ClaimedTarget(args.spot))

\* C16, what holds of engine/strategy.py: the same with the target width rounded to whole dollars
C16_WidthWithinThreeRoundedTargets ==
  Returned =>
    \A side \in Sides(results[1]) :
      SideWithin(results[1].legs[side[1]], results[1].legs[side[2]], 1000 * TargetWidth(args.spot))

\* a spread $5 wide is returned on the $100 underlying: more than 3 x $1.50
C16_FiveWideReturned ==
  /\ Returned /\ args.spot = 100 /\ results[1].name \in VerticalNames
  /\ Abs(results[1].legs[1].strike - results[1].legs[2].strike) = 5

\* a call is rejected for the spacing of the strikes
C16_SpacingRejected == RejectedFor("strike_spacing")

\* the put strikes and the call strikes build_strategy chooses among are mirror images of each
\* other around the spot
MirroredStrikes ==
  Strikes(filter_liquid_options(market.puts))
    = Mirror(Strikes(filter_liquid_options(market.calls)), args.spot)

\* the distances from the spot of the short put and of the short call the deltas select
DeltaDistances ==
  LET calls == filter_liquid_options(market.calls)
      puts == filter_liquid_options(market.puts)
      sigma == estimate_sigma(calls \o puts)
  IN << args.spot - find_strike_by_delta(puts, args.spot, market.dte, sigma, -160000, "put").strike,
        find_strike_by_delta(calls, args.spot, market.dte, sigma, 160000, "call").strike - args.spot >>

\* C17: when the available put strikes and call strikes are mirror images of each other around
\* the spot, the short put and the short call of a returned Iron Condor lie at the same distance
\* from the spot
C17_CondorCentered ==
  (Returned /\ results[1].name = "Iron Condor" /\ MirroredStrikes)
    => args.spot - results[1].legs[1].strike = results[1].legs[3].strike - args.spot

\* an Iron Condor is returned on mirrored $5 strikes around a spot of 100 where the deltas had
\* put the short call further from the spot than the short put
C17_Witness ==
  /\ Returned /\ results[1].name = "Iron Condor" /\ MirroredStrikes
  /\ args.spot = 100
  /\ DeltaDistances[1] < DeltaDistances[2]
  /\ args.spot - results[1].legs[1].strike = DeltaDistances[1]
  /\ results[1].legs[3].strike - args.spot = DeltaDistances[1]

-----------------------------------------------------------------------------
(* compute_real_probabilities and simulate_pnl, under SpecFunctions *)

\* the function named fn has returned
ReturnedFrom(fn) == results # <<>> /\ args.fn = fn

\* C11 as claimed: whatever the arguments, the returned p_take_profit is <= the returned p_breakeven
C11_TakeProfitWithinBreakeven ==
  ReturnedFrom("compute_real_probabilities") => results[1].p_take_profit <= results[1].p_breakeven

\* C11 as amended: for a take_profit >= 0, whatever the legs and the other arguments, the returned
\* p_take_profit is <= the returned p_breakeven
C11_TakeProfitWithinBreakevenForATarget ==
  (ReturnedFrom("compute_real_probabilities") /\ args.take_profit >= 0)
    => results[1].p_take_profit <= results[1].p_breakeven

\* an Iron Condor (a payoff that is not monotone) with a positive target some winning outcomes miss
C11_Witness ==
  /\ ReturnedFrom("compute_real_probabilities")
  /\ args.legs = IronCondorLegs /\ args.take_profit > 0
  /\ results[1].p_take_profit < results[1].p_breakeven
  /\ results[1].p_take_profit > 1

\* C12 as claimed: each of the four percentages lies in [0.1, 99.9]
C12_FourPercentagesClamped ==
  ReturnedFrom("compute_real_probabilities") =>
    \A k \in {"p_take_profit", "p_breakeven", "p_partial_loss", "p_max_loss"} :
      results[1][k] >= 1 /\ results[1][k] <= 999

\* C12 as amended: p_take_profit, p_breakeven and p_max_loss lie in [0.1, 99.9], and
\* p_partial_loss, the remainder 100 - p_breakeven - p_max_loss floored at 0, lies in [0.0, 99.8]
C12_ThreeClampedAndARemainder ==
  ReturnedFrom("compute_real_probabilities") =>
    /\ \A k \in {"p_take_profit", "p_breakeven", "p_max_loss"} :
         results[1][k] >= 1 /\ results[1][k] <= 999
    /\ results[1].p_partial_loss >= 0 /\ results[1].p_partial_loss <= 998

\* both clamps act: every outcome is above a target set under the worst loss (99.9998% of the
\* mass on the grid, returned as 99.9) and no outcome loses 95% of max_risk (0%, returned as 0.1)
C12_Witness ==
  /\ ReturnedFrom("compute_real_probabilities")
  /\ args.max_risk > 0
  /\ results[1].p_take_profit = 999
  /\ results[1].p_max_loss = 1

\* the revalued net value as the claim words it: the sum over the legs of sign x price(target_spot,
\* strike, days / 365, r, sigma, type), sign +1 for BUY and -1 for SELL
ClaimedValue(legs, target_spot, days, sigma) ==
  Mass([i \in DOMAIN legs |->
          (IF legs[i].action = "BUY" THEN 1 ELSE -1)
            * black_scholes_price(target_spot, legs[i].strike, days, sigma,
                                  IF legs[i].type = "Call" THEN "call" ELSE "put")],
       DOMAIN legs)

\* the initial net value as the claim words it: the sum of sign x entry price
ClaimedInitial(legs) ==
  Mass([i \in DOMAIN legs |-> (IF legs[i].action = "BUY" THEN 1 ELSE -1) * legs[i].price],
       DOMAIN legs)

\* (revalued - initial) x 100 x qty to the cent, the legs revalued with days left to expiration
ClaimedPnl(days) ==
  RoundSigned((ClaimedValue(args.legs, args.target_spot, days, args.current_sigma)
               - 10000 * ClaimedInitial(args.legs)) * args.qty, 100)

\* C20 as claimed: simulate_pnl returns (revalued - initial) x 100 x qty with every leg revalued at
\* days_to_target / 365, for every days_to_target >= 0, hence at its intrinsic value for 0
C20_RevaluedAtTheTargetDay ==
  ReturnedFrom("simulate_pnl") => results[1] = ClaimedPnl(args.days_to_target)

\* C20 as amended: simulate_pnl returns (revalued - initial) x 100 x qty to the cent with every leg
\* revalued at max(days_to_target, 1) / 365: with days_to_target = 0, at one day to expiration
C20_RevaluedNoCloserThanADay ==
  ReturnedFrom("simulate_pnl") =>
    results[1] = ClaimedPnl(IF args.days_to_target >= 1 THEN args.days_to_target ELSE 1)

\* the golden value of the test's Bull Put Spread at 95 with 21 days left, +37.19
C20_GoldenValue ==
  /\ ReturnedFrom("simulate_pnl")
  /\ args.legs = BullPutLegs /\ args.target_spot = 9500 /\ args.days_to_target = 21
  /\ args.current_sigma = 2500 /\ args.qty = 1
  /\ results[1] = 3719

\* a position of several contracts revalued on the target day itself: the P&L returned carries the
\* time value of one day
C20_Witness ==
  /\ ReturnedFrom("simulate_pnl")
  /\ args.days_to_target = 0 /\ args.current_sigma > 0 /\ args.qty > 1 /\ Len(args.legs) = 2
  /\ results[1] # ClaimedPnl(0)

-----------------------------------------------------------------------------
(* filter_liquid_options and get_mid_price, under SpecFunctions *)

\* the row as the claim has it after the synthesis: bid and ask replaced by 0.98 x last and
\* 1.02 x last to the cent when bid <= 0 and the last price is > 0
ClaimedQuote(row) ==
  IF row.bid <= 0 /\ row.lastPrice > 0
  THEN [bid |-> RoundHalfEven(98 * row.lastPrice, 100), ask |-> RoundHalfEven(102 * row.lastPrice, 100)]
  ELSE [bid |-> row.bid, ask |-> row.ask]

\* the spread of the quote is exactly 40% of its mid price
SpreadAtTheLimit(q) == 2 * q.ask = 3 * q.bid

\* the row is to be kept: bid > 0, open interest >= 10 and (ask - bid) / mid <= 0.40
ClaimedKept(row) ==
  /\ ClaimedQuote(row).bid > 0
  /\ row.openInterest >= 10
  /\ 5 * (ClaimedQuote(row).ask - ClaimedQuote(row).bid) <= ClaimedQuote(row).bid + ClaimedQuote(row).ask

\* the strikes of the rows of a chain, in order (a strike names its row: the strikes are distinct)
StrikesInOrder(df) == [i \in DOMAIN df |-> df[i].strike]

\* C18: filter_liquid_options keeps a row if and only if, after the synthesis, it has bid > 0, open
\* interest >= 10 and (ask - bid) / mid <= 0.40; the kept rows keep their order and none is added
C18_FilterKeeps ==
  ReturnedFrom("filter_liquid_options") =>
    StrikesInOrder(results[1]) = StrikesInOrder(SelectSeq(args.df, ClaimedKept))

\* C18, the part that holds: the same on every chain with no quote at a spread of exactly 40%
C18_FilterKeepsUpToATie ==
  (ReturnedFrom("filter_liquid_options")
     /\ \A i \in DOMAIN args.df : ~SpreadAtTheLimit(ClaimedQuote(args.df[i])))
    => StrikesInOrder(results[1]) = StrikesInOrder(SelectSeq(args.df, ClaimedKept))

\* a quote of 0.18 / 0.27, a spread of exactly 40%, is dropped between two rows that are kept
C18_TieDropped ==
  /\ ReturnedFrom("filter_liquid_options")
  /\ Len(args.df) = 3 /\ args.df[2].bid = 18 /\ args.df[2].ask = 27
  /\ StrikesInOrder(results[1]) = << 1, 3 >>

\* C19: get_mid_price returns (bid + ask) / 2 rounded to cents when bid > 0 and ask > 0, otherwise
\* the last price when it is > 0, otherwise 0.0, a missing or null field counting as 0
C19_MidPrice ==
  (ReturnedFrom("get_mid_price") \/ ReturnedFrom("app.get_mid_price")) =>
    IF Field(args.row, "bid") > 0 /\ Field(args.row, "ask") > 0
    THEN /\ 2 * results[1] - (Field(args.row, "bid") + Field(args.row, "ask")) \in {-1, 0, 1}
    ELSE IF Field(args.row, "lastPrice") > 0 THEN results[1] = Field(args.row, "lastPrice")
    ELSE results[1] = 0

\* C19, the part that holds: the same of the get_mid_price of engine/strategy.py alone
C19_EngineMidPrice ==
  ReturnedFrom("get_mid_price") =>
    IF Field(args.row, "bid") > 0 /\ Field(args.row, "ask") > 0
    THEN /\ 2 * results[1] - (Field(args.row, "bid") + Field(args.row, "ask")) \in {-1, 0, 1}
    ELSE IF Field(args.row, "lastPrice") > 0 THEN results[1] = Field(args.row, "lastPrice")
    ELSE results[1] = 0

\* the get_mid_price of app.py prices at 0.0 a row with no bid whose last price is 0.05
C19_AppIgnoresTheLastPrice ==
  /\ ReturnedFrom("app.get_mid_price")
  /\ Field(args.row, "bid") = 0 /\ Field(args.row, "lastPrice") = 5
  /\ results[1] = 0

-----------------------------------------------------------------------------
(* The pricer at its boundary, under SpecFunctions *)

\* C21: for T <= 0 or sigma <= 0 black_scholes_price returns max(0, S - K) for a call and
\* max(0, K - S) for a put, and the delta, the gamma, the theta and the vega are 0
C21_DegenerateBoundary ==
  (ReturnedFrom("black_scholes") /\ (args.days <= 0 \/ args.sigma <= 0)) =>
    /\ results[1].price
         = 1000000 * (IF args.option_type = "call"
                      THEN (IF args.S > args.K THEN args.S - args.K ELSE 0)
                      ELSE (IF args.K > args.S THEN args.K - args.S ELSE 0))
    /\ results[1].delta = 0 /\ results[1].gamma = 0
    /\ results[1].theta = 0 /\ results[1].vega = 0

\* a put 20 in the money is priced 20 with time left and a volatility of zero
C21_Witness ==
  /\ ReturnedFrom("black_scholes")
  /\ args.days > 0 /\ args.sigma = 0 /\ args.option_type = "put" /\ args.S = 90 /\ args.K = 110
  /\ results[1].price = 20000000 /\ results[1].delta = 0

\* away from the boundary the price is above the intrinsic value and the Greeks are not 0
C21_ClosedForm ==
  /\ ReturnedFrom("black_scholes")
  /\ args.days > 0 /\ args.sigma > 0 /\ args.option_type = "call" /\ args.K = 95
  /\ results[1].price > 5000000 /\ results[1].delta > 0 /\ results[1].gamma > 0
  /\ results[1].theta < 0 /\ results[1].vega > 0

-----------------------------------------------------------------------------
(* The exit plan, under Spec *)

\* C22: in every returned strategy the take-profit target of the exit plan is 50% of max_profit,
\* both after the scaling by the quantity
C22_TakeProfitIsHalfTheMaxProfit ==
  Returned => 2 * results[1].exit_plan.take_profit = results[1].max_profit

\* a strategy of three contracts is returned, with a take-profit target above zero
C22_Witness ==
  /\ Returned /\ results[1].qty = 3
  /\ results[1].exit_plan.take_profit > 0
  /\ 2 * results[1].exit_plan.take_profit = results[1].max_profit

\* a Calendar Spread is returned, its max_profit half its max_risk and its target half of that
C22_CalendarTarget ==
  /\ Returned /\ results[1].name = "Calendar Spread"
  /\ 2 * results[1].max_profit = results[1].max_risk
  /\ 4 * results[1].exit_plan.take_profit = results[1].max_risk

-----------------------------------------------------------------------------
(* The multi-ticker scan, under SpecScan *)

\* the pairs of the ticker list x biases, in list order, that met one of the outcomes kept
RECURSIVE PairsFrom(_, _, _)
PairsFrom(i, b, kept) ==
  IF i > Len(args.TICKER_LIST) THEN <<>>
  ELSE (IF market[args.TICKER_LIST[i]][ScanBiases[b]] \in kept
        THEN << <<args.TICKER_LIST[i], ScanBiases[b]>> >> ELSE <<>>)
       \o PairsFrom(NextPair(i, b)[1], NextPair(i, b)[2], kept)

\* the pairs of the rows collected, in the order collected
RowPairs == [k \in DOMAIN results |-> <<results[k].Ticker, results[k].Biais>>]

\* build_strategy returned
Succeeded == {"strategy"}

\* build_strategy was reached
Fetched == PairOutcomes \ {"fetch_raises"}

-----------------------------------------------------------------------------
(* The HybridProvider, under SpecHybrid *)

\* the last call was one of the five data methods
DataCall == results # <<>> /\ results[1].call = "data"

\* C24: a data method tries IBKR first, yfinance serves only when there is no usable IBKR (none
\* built, TWS not answering, or the IBKR call raising), and last_source names the source that
\* served
C24_IbkrFirstThenYfinance ==
  DataCall =>
    /\ results[1].ibkr_usable => results[1].tried[1] = "IBKR"
    /\ results[1].served = "yfinance" => ~results[1].ibkr_usable
    /\ pc.last_source[results[1].method] = results[1].served

\* a data method was served by yfinance while the IBKRProvider was connected and would have
\* answered, and IBKR was not tried
C24_YfinanceWhileIbkrUsable ==
  /\ DataCall /\ pc.ibkr_available /\ pc.connected
  /\ results[1].ibkr_usable /\ results[1].tried = <<"yfinance">>
  /\ pc.last_source[results[1].method] = "yfinance"

\* last_source names the source that served the last data call
C24_LastSourceIsTheServer ==
  DataCall => pc.last_source[results[1].method] = results[1].served

-----------------------------------------------------------------------------
(* The Calendar Spread with the integrator of the engine, under SpecFunctions *)

\* the builder of the Calendar Spread gave a position, and the integrator has run on it
CalendarBuilt == ReturnedFrom("calendar") /\ results[1].draft.kind # "rejected"

\* C25: a Calendar Spread has two legs of one strike and one type; its simulated P&L is, at
\* every target spot, minus the net debit x 100; its expected P&L is under -0.20 x max_risk, and
\* the EV kill switch rejects it
C25_CalendarNeverReturned ==
  CalendarBuilt =>
    LET r == results[1]
    IN /\ Len(r.draft.legs) = 2
       /\ r.draft.legs[1].strike = r.draft.legs[2].strike
       /\ r.draft.legs[1].type = r.draft.legs[2].type
       /\ \A i \in DOMAIN r.pnl :
            r.pnl[i] = -100 * (r.draft.legs[1].price - r.draft.legs[2].price)
       /\ r.outcome = Reject("negative_ev")

\* a Calendar Spread within the budget for several contracts, its long leg priced on a row of
\* another strike than the one it names, met the integrator and was rejected
C25_Witness ==
  /\ CalendarBuilt
  /\ results[1].draft.max_risk > 0
  /\ PositionSize(args.budget, results[1].draft.max_risk) > 1
  /\ results[1].draft.legs[1].strike \notin Strikes(args.calls)
  /\ Len(results[1].pnl) = Len(Z_VALUES)
  /\ results[1].outcome = Reject("negative_ev")

-----------------------------------------------------------------------------
(* The liquidity of the rows the legs are priced on, under Spec *)

\* the chain, as the provider returned it, a leg of the returned strategy was picked from: by its
\* expiration the LEAPS chain, the short-term chain or the main chain
LegSource(leg) ==
  IF leg.exp = market.exp THEN (IF leg.type = "Call" THEN market.calls ELSE market.puts)
  ELSE IF market.leaps # None /\ leg.exp = market.leaps.exp /\ leg.dte = market.leaps.dte
       THEN market.leaps.calls
       ELSE market.short.calls

\* the leg carries the price of a row of its chain that filter_liquid_options keeps: the row at
\* the strike of the leg, or the nearest one when the chain does not list that strike
PricedOnLiquidRow(leg) ==
  \E i \in DOMAIN LegSource(leg) :
    LET row == SynthesizeQuote(LegSource(leg)[i])
    IN /\ IsLiquid(row)
       /\ get_mid_price(row) = leg.price
       /\ row.strike = leg.strike \/ leg.strike \notin Strikes(LegSource(leg))

C26_ThinLeapsLeg ==
  /\ Returned /\ results[1].name = "PMCC (Diagonal Spread)"
  /\ \E i \in DOMAIN market.leaps.calls :
       /\ market.leaps.calls[i].strike = results[1].legs[1].strike
       /\ market.leaps.calls[i].openInterest < 10
  /\ PricedOnLiquidRow(results[1].legs[2])

\* the legs picked from the main chain are priced on rows that passed filter_liquid_options
C26_MainChainLegsOnLiquidRows ==
  Returned => \A k \in DOMAIN results[1].legs :
                results[1].legs[k].exp = market.exp => PricedOnLiquidRow(results[1].legs[k])

-----------------------------------------------------------------------------
(* The order of the strikes of an Iron Condor, under Spec *)

\* an Iron Condor is returned
CondorReturned == Returned /\ results[1].name = "Iron Condor"

\* C27: the strikes of a returned Iron Condor are in the order long put < short put < short call
\* < long call, the short put under the spot and the short call over it
C27_CondorStrikesOrdered ==
  CondorReturned =>
    LET legs == results[1].legs
    IN /\ legs[2].strike < legs[1].strike
       /\ legs[1].strike < legs[3].strike
       /\ legs[3].strike < legs[4].strike
       /\ legs[1].strike < args.spot
       /\ legs[3].strike > args.spot

\* an Iron Condor is returned whose short put is above the spot: no put under the spot was left
\* by the filter, and the short strikes stayed where the deltas put them
C27_ShortPutInTheMoney ==
  /\ CondorReturned
  /\ {s \in Strikes(filter_liquid_options(market.puts)) : s < args.spot} = {}
  /\ results[1].legs[1].strike > args.spot
  /\ results[1].legs[2].strike < results[1].legs[1].strike
  /\ results[1].legs[1].strike < results[1].legs[3].strike
  /\ results[1].legs[3].strike < results[1].legs[4].strike

\* the strikes of a returned Iron Condor are in the order long put < short put < short call <
\* long call
C27_WingsOutsideTheBody ==
  CondorReturned =>
    LET legs == results[1].legs
    IN /\ legs[2].strike < legs[1].strike
       /\ legs[1].strike < legs[3].strike
       /\ legs[3].strike < legs[4].strike

-----------------------------------------------------------------------------
(* The three outcomes of the integrator, under SpecFunctions *)

\* C28: for max_risk > 0 the percentages of the three outcomes add up to 100.0, and the partial
\* loss is not negative
C28_OutcomesAddUp ==
  ReturnedFrom("compute_real_probabilities") /\ args.max_risk > 0 =>
    /\ results[1].p_breakeven + results[1].p_partial_loss + results[1].p_max_loss = 1000
    /\ results[1].p_partial_loss >= 0

\* the integrator has returned for a max_risk above zero: the max loss is at its lower clamp and
\* the rest is shared between the break-even and a partial loss
C28_Witness ==
  /\ ReturnedFrom("compute_real_probabilities") /\ args.max_risk > 0
  /\ results[1].p_max_loss = 1
  /\ results[1].p_partial_loss > 0 /\ results[1].p_breakeven > 1
  /\ results[1].p_breakeven + results[1].p_partial_loss + results[1].p_max_loss = 1000

-----------------------------------------------------------------------------
(* The horizon of the integrator and the exit plan, under Spec *)

\* the expiration of the returned strategy was its dte days after the day of the call
ExpiresDteDaysOut == results[1].exit_plan.time_stop_dte = results[1].dte - 21

\* C29: the days the integrator lets the underlying move and the tenor it revalues the legs at
\* add up to the dte; and, the expiration being dte days out, the days moved are the days the
\* exit plan leaves to its time stop, which are not negative
C29_HorizonMatchesExitPlan ==
  Returned =>
    /\ holding_days(results[1].dte) + remaining_dte(results[1].dte) = results[1].dte
    /\ ExpiresDteDaysOut =>
         /\ holding_days(results[1].dte) = results[1].exit_plan.time_stop_dte
         /\ results[1].exit_plan.time_stop_dte >= 0

\* a strategy is returned on an expiration 20 days out: its time stop was yesterday
C29_TimeStopInThePast ==
  /\ Returned /\ results[1].dte = 20 /\ ExpiresDteDaysOut
  /\ results[1].exit_plan.time_stop_dte = -1
  /\ holding_days(results[1].dte) = 1 /\ remaining_dte(results[1].dte) = 20

\* from 22 days out on, the horizon of the integrator is the one of the exit plan
C29_HorizonFrom22Days ==
  Returned /\ results[1].dte >= 22 =>
    /\ holding_days(results[1].dte) + remaining_dte(results[1].dte) = results[1].dte
    /\ ExpiresDteDaysOut =>
         /\ holding_days(results[1].dte) = results[1].exit_plan.time_stop_dte
         /\ results[1].exit_plan.time_stop_dte >= 1

-----------------------------------------------------------------------------
(* The two implementations of build_strategy, under SpecBoth *)

\* every row of the chain has a bid and an ask above zero
AllQuoted(chain) == \A i \in DOMAIN chain : Field(chain[i], "bid") > 0 /\ Field(chain[i], "ask") > 0

EveryRowQuoted ==
  /\ AllQuoted(market.calls) /\ AllQuoted(market.puts)
  /\ market.leaps # None => AllQuoted(market.leaps.calls)
  /\ market.short # None => AllQuoted(market.short.calls)

\* both implementations have been called
BothCalled == Called /\ pc # None

\* C30: on a snapshot where every row has a bid and an ask above zero, the build_strategy of
\* app.py and the one of the engine give the same strategy record, or both a rejection
C30_ImplementationsAgree ==
  BothCalled /\ EveryRowQuoted =>
    \/ results[1].kind = "rejected" /\ pc.app.kind = "rejected"
    \/ results[1] = pc.app

\* on a fully quoted snapshot the engine rejected for the spacing of the strikes and app.py
\* returned a strategy
C30_AppReturnsWhatTheEngineRejects ==
  /\ BothCalled /\ EveryRowQuoted
  /\ RejectedFor("strike_spacing")
  /\ pc.app.kind = "strategy"

\* on a fully quoted snapshot the two implementations agree whenever the engine does not reject
\* for the spacing of the strikes
C30_AgreeButForTheSpacing ==
  BothCalled /\ EveryRowQuoted /\ ~RejectedFor("strike_spacing") =>
    \/ results[1].kind = "rejected" /\ pc.app.kind = "rejected"
    \/ results[1] = pc.app

====
